---- MODULE Spec2Model ----
(***************************************************************************)
(* Model of the sprite-sheet composition and colour-variant engine of      *)
(* pixel_factory (spritesheet.py, preview.py) and of the part of the       *)
(* pipeline that writes a creature's sheets (pipeline.py).                 *)
(*                                                                         *)
(* An image is a record [mode, size, data]: size = <<width, height>> and   *)
(* data maps every <<x, y>> with 0 <= x < width, 0 <= y < height to a      *)
(* pixel <<r, g, b, a>> of 8-bit channels.  An image of mode "RGB" carries *)
(* a = 255 in every pixel, which is what Pillow's convert("RGBA") gives.   *)
(* Pillow's C kernels (paste with a mask, RGB <-> HSV, nearest resize) are *)
(* modelled in exact integer arithmetic.                                   *)
(***************************************************************************)
EXTENDS Integers, Sequences, FiniteSets, TLC

(***************************************************************************)
(* Bounds of the model.                                                    *)
(***************************************************************************)
MaxDim == 2
MaxFrames == 2
MaxSpacing == 2

(***************************************************************************)
(* Integer helpers.                                                        *)
(***************************************************************************)
Min2(a, b) == IF a <= b THEN a ELSE b
Max2(a, b) == IF a >= b THEN a ELSE b

\* int(num / den) of Python: truncation toward zero (den > 0).
IntTrunc(num, den) == IF num >= 0 THEN num \div den ELSE -((-num) \div den)

\* round(num / den) of C, num >= 0, den > 0 (halves go up).
RoundDiv(num, den) == (2 * num + den) \div (2 * den)

\* a >> 8 of C for a >= 0.
Shr8(a) == a \div 256

(***************************************************************************)
(* Pixels and colours used as inputs.                                      *)
(***************************************************************************)
Red == <<255, 0, 0, 255>>
Green == <<0, 255, 0, 255>>
Blue == <<0, 0, 255, 255>>
Yellow == <<255, 255, 0, 255>>
Slate == <<100, 150, 200, 255>>
Clear == <<0, 0, 0, 0>>
Semi == <<100, 150, 200, 128>>
Dark == <<30, 30, 30, 255>>

OpaqueSeq == <<Red, Green, Blue, Yellow>>
AlphaSeq == <<Red, Clear, Semi, Yellow>>

\* the input values grow with the bounds; their number does not
Dims == {1, MaxDim}
Sizes == Dims \X Dims
Spacings == {0, 1, MaxSpacing}
FrameCounts == {0, 1, MaxFrames}
Backgrounds == {Clear, Dark}

(***************************************************************************)
(* Images.                                                                 *)
(***************************************************************************)
Coords(size) == (0..(size[1] - 1)) \X (0..(size[2] - 1))

NoImage == [mode |-> "none", size |-> <<0, 0>>, data |-> <<>>]

\* Image.new(mode, size, color)
Image_new(mode, size, color) ==
    [mode |-> mode, size |-> size, data |-> [p \in Coords(size) |-> color]]

\* A frame whose pixel at (x, y) is taken from a colour sequence, so that
\* frames differ from each other and are not symmetric in x and y.
PatternImage(size, colours, k) ==
    [mode |-> "RGBA", size |-> size,
     data |-> [p \in Coords(size) |->
                 colours[((k + p[1] + 2 * p[2]) % Len(colours)) + 1]]]

IsOpaque(img) == \A p \in Coords(img.size) : img.data[p][4] = 255


(***************************************************************************)
(* Pillow kernels.                                                         *)
(***************************************************************************)
\* Image.convert("RGB") of an RGBA image: the colour channels are copied and
\* the alpha byte is dropped (read back as 255).
ToRGB(px) == <<px[1], px[2], px[3], 255>>

\* Convert.c rgb2hsv_row: 8-bit hue, saturation and value of an RGB pixel.
rgb2hsv(px) ==
    LET r == px[1]
        g == px[2]
        b == px[3]
        maxc == Max2(r, Max2(g, b))
        minc == Min2(r, Min2(g, b))
        cr == maxc - minc
        \* cr * h of the C code, h in [-1, 5]
        hn == IF r = maxc THEN g - b
              ELSE IF g = maxc THEN 2 * cr + b - r
              ELSE 4 * cr + r - g
    IN  IF minc = maxc THEN <<0, 0, maxc>>
        ELSE <<(255 * ((hn + 6 * cr) % (6 * cr))) \div (6 * cr),
               (255 * cr) \div maxc,
               maxc>>

\* Convert.c hsv2rgb: the RGB pixel of 8-bit hue, saturation and value.
hsv2rgb(hsv) ==
    LET h == hsv[1]
        s == hsv[2]
        v == hsv[3]
        i == (6 * h) \div 255
        fn == 6 * h - 255 * i
        p == RoundDiv(v * (255 - s), 255)
        q == RoundDiv(v * (65025 - s * fn), 65025)
        t == RoundDiv(v * (65025 - s * (255 - fn)), 65025)
        k == i % 6
    IN  IF s = 0 THEN <<v, v, v>>
        ELSE IF k = 0 THEN <<v, t, p>>
        ELSE IF k = 1 THEN <<q, v, p>>
        ELSE IF k = 2 THEN <<p, v, t>>
        ELSE IF k = 3 THEN <<p, q, v>>
        ELSE IF k = 4 THEN <<t, p, v>>
        ELSE <<v, p, q>>

\* Paste.c BLEND / DIV255: one channel of dst under src with an 8-bit mask.
BlendChannel(mask, dst, src) ==
    LET tmp == dst * (255 - mask) + src * mask + 128
    IN  Shr8(Shr8(tmp) + tmp)

BlendPixel(mask, dst, src) ==
    <<BlendChannel(mask, dst[1], src[1]), BlendChannel(mask, dst[2], src[2]),
      BlendChannel(mask, dst[3], src[3]), BlendChannel(mask, dst[4], src[4])>>

\* Image.paste(im, (x, y), im if im.mode == "RGBA" else None): the region
\* of im that falls inside sheet is written, through im's alpha band when
\* im is RGBA and directly otherwise.
paste(sheet, im, box) ==
    [sheet EXCEPT !.data =
        [p \in Coords(sheet.size) |->
            LET sx == p[1] - box[1]
                sy == p[2] - box[2]
            IN  IF sx >= 0 /\ sx < im.size[1] /\ sy >= 0 /\ sy < im.size[2]
                THEN IF im.mode = "RGBA"
                     THEN BlendPixel(im.data[<<sx, sy>>][4],
                                     sheet.data[p], im.data[<<sx, sy>>])
                     ELSE im.data[<<sx, sy>>]
                ELSE sheet.data[p]]]

\* Image.crop((0, 0, w, h)): pixels outside the source read as zero.
crop(im, w, h) ==
    [mode |-> im.mode, size |-> <<w, h>>,
     data |-> [p \in Coords(<<w, h>>) |->
                 IF p[1] < im.size[1] /\ p[2] < im.size[2]
                 THEN im.data[p]
                 ELSE IF im.mode = "RGBA" THEN <<0, 0, 0, 0>>
                      ELSE <<0, 0, 0, 255>>]]

(***************************************************************************)
(* spritesheet.apply_color_variant                                         *)
(***************************************************************************)
\* a variant of NewHue that wraps at 360 degrees instead of the channel size
NewHue_Degrees(h, hue_shift) == (h + hue_shift) % 360

\* spritesheet.py:36
NewHue(h, hue_shift) == (h + hue_shift) % 256

\* spritesheet.py:38; the factor is the fraction sf[1] / sf[2]
NewSat(s, sf) == Min2(255, Max2(0, IntTrunc(s * sf[1], sf[2])))

\* spritesheet.py:26-27: the HSV image of base_image
hsv_of(base_image) ==
    [p \in Coords(base_image.size) |-> rgb2hsv(ToRGB(base_image.data[p]))]

\* spritesheet.py:33-39: the list hsv_data
hsv_transform(base_image, hue_shift, sf) ==
    [p \in Coords(base_image.size) |->
        LET hsv == hsv_of(base_image)[p]
        IN  <<NewHue(hsv[1], hue_shift), NewSat(hsv[2], sf), hsv[3]>>]

\* a variant of RestoredAlpha that leaves the converted image's alpha
RestoredAlpha_Opaque(base_image, p) == 255

\* spritesheet.py:44-49: the alpha written into the result
RestoredAlpha(base_image, p) ==
    IF base_image.mode = "RGBA" THEN base_image.data[p][4] ELSE 255

apply_color_variant(base_image, hue_shift, sf) ==
    LET data == hsv_transform(base_image, hue_shift, sf)
    IN  [mode |-> "RGBA", size |-> base_image.size,
         data |-> [p \in Coords(base_image.size) |->
                     LET rgb == hsv2rgb(data[p])
                     IN  <<rgb[1], rgb[2], rgb[3],
                           RestoredAlpha(base_image, p)>>]]

(***************************************************************************)
(* Outcome of a call: a returned image or a raised exception.              *)
(***************************************************************************)
Returned(img) == [status |-> "ok", image |-> img]
Raised(exc) == [status |-> exc, image |-> NoImage]
NoResult == [status |-> "none", image |-> NoImage]

(***************************************************************************)
(* spritesheet.create_animation_sprite_sheet                               *)
(***************************************************************************)
\* a variant of SheetWidth that counts a gap after every frame
SheetWidth_GapPerFrame(n, frame_width, spacing) == n * frame_width + n * spacing

\* spritesheet.py:74
SheetWidth(n, frame_width, spacing) == n * frame_width + (n - 1) * spacing

\* a variant of PasteRow that advances by the frame width only
RECURSIVE PasteRow_NoSpacing(_, _, _, _, _, _)
PasteRow_NoSpacing(sheet, frames, i, x_offset, y_offset, step) ==
    IF i > Len(frames) THEN sheet
    ELSE PasteRow_NoSpacing(paste(sheet, frames[i], <<x_offset, y_offset>>),
                            frames, i + 1, x_offset + frames[1].size[1],
                            y_offset, step)

\* spritesheet.py:78-81 and 119-123: paste frames[i..] from x_offset on
RECURSIVE PasteRow(_, _, _, _, _, _)
PasteRow(sheet, frames, i, x_offset, y_offset, step) ==
    IF i > Len(frames) THEN sheet
    ELSE PasteRow(paste(sheet, frames[i], <<x_offset, y_offset>>),
                  frames, i + 1, x_offset + step, y_offset, step)

\* a variant of create_animation_sprite_sheet that leaves a gap before the
\* first frame
create_animation_sprite_sheet_Shifted(frames, spacing, background_color) ==
    IF frames = <<>> THEN Raised("ValueError")
    ELSE LET frame_width == frames[1].size[1]
             frame_height == frames[1].size[2]
             total_width == SheetWidth(Len(frames), frame_width, spacing)
             sprite_sheet == Image_new("RGBA", <<total_width, frame_height>>,
                                       background_color)
         IN  Returned(PasteRow(sprite_sheet, frames, 1, spacing, 0,
                               frame_width + spacing))

create_animation_sprite_sheet(frames, spacing, background_color) ==
    IF frames = <<>> THEN Raised("ValueError")
    ELSE LET frame_width == frames[1].size[1]
             frame_height == frames[1].size[2]
             total_width == SheetWidth(Len(frames), frame_width, spacing)
             sprite_sheet == Image_new("RGBA", <<total_width, frame_height>>,
                                       background_color)
         IN  Returned(PasteRow(sprite_sheet, frames, 1, 0, 0,
                               frame_width + spacing))

(***************************************************************************)
(* models.AnimationType and the combined sheet.  A dict is the sequence of *)
(* its <<key, value>> pairs in insertion order.                            *)
(***************************************************************************)
AnimationType == {"IDLE", "WALK", "ATTACK"}

\* models.py:15-17: the member's value
KindValue(kind) ==
    IF kind = "IDLE" THEN "idle"
    ELSE IF kind = "WALK" THEN "walk"
    ELSE "attack"

\* The character codes of the three values, for string comparison.
StrCodes(str) ==
    IF str = "idle" THEN <<105, 100, 108, 101>>
    ELSE IF str = "walk" THEN <<119, 97, 108, 107>>
    ELSE <<97, 116, 116, 97, 99, 107>>

\* str.__lt__ on character codes
LexLess(a, b) ==
    \E k \in 1..(Min2(Len(a), Len(b)) + 1) :
        /\ \A j \in 1..(k - 1) : a[j] = b[j]
        /\ \/ k > Len(a) /\ k <= Len(b)
           \/ k <= Len(a) /\ k <= Len(b) /\ a[k] < b[k]

\* the sort key comparison of spritesheet.py:106
KeyLess(k1, k2) == LexLess(StrCodes(KindValue(k1)), StrCodes(KindValue(k2)))

DictKeys(d) == [i \in 1..Len(d) |-> d[i][1]]
DictValues(d) == [i \in 1..Len(d) |-> d[i][2]]
DictGet(d, key) == d[CHOOSE i \in 1..Len(d) : d[i][1] = key][2]

RemoveAt(seq, m) == [i \in 1..(Len(seq) - 1) |-> IF i < m THEN seq[i] ELSE seq[i + 1]]

\* a variant of SortedKinds that keeps the insertion order of the dict
SortedKinds_Insertion(keys) == keys

\* spritesheet.py:106: sorted(keys, key=lambda x: x.value)
RECURSIVE SortedKinds(_)
SortedKinds(keys) ==
    IF keys = <<>> THEN <<>>
    ELSE LET m == CHOOSE i \in 1..Len(keys) :
                     \A j \in 1..Len(keys) :
                         ~KeyLess(keys[j], keys[i])
         IN  <<keys[m]>> \o SortedKinds(RemoveAt(keys, m))

\* a variant of MaxLenOf that takes the length of the first animation
MaxLenOf_First(lists) == Len(lists[1])

\* spritesheet.py:109
MaxLenOf(lists) ==
    CHOOSE n \in {Len(lists[i]) : i \in 1..Len(lists)} :
        \A i \in 1..Len(lists) : Len(lists[i]) <= n

\* spritesheet.py:112
SheetHeight(k, frame_height, spacing) == k * frame_height + (k - 1) * spacing

\* a variant of PasteRows that moves down by the horizontal step
RECURSIVE PasteRows_WidthStep(_, _, _, _, _, _, _)
PasteRows_WidthStep(sheet, animation_frames, animation_types, r, y_offset, xstep, ystep) ==
    IF r > Len(animation_types) THEN sheet
    ELSE PasteRows_WidthStep(
             PasteRow(sheet, DictGet(animation_frames, animation_types[r]),
                      1, 0, y_offset, xstep),
             animation_frames, animation_types, r + 1,
             y_offset + xstep, xstep, ystep)

\* spritesheet.py:116-125
RECURSIVE PasteRows(_, _, _, _, _, _, _)
PasteRows(sheet, animation_frames, animation_types, r, y_offset, xstep, ystep) ==
    IF r > Len(animation_types) THEN sheet
    ELSE PasteRows(PasteRow(sheet, DictGet(animation_frames, animation_types[r]),
                            1, 0, y_offset, xstep),
                   animation_frames, animation_types, r + 1,
                   y_offset + ystep, xstep, ystep)

create_combined_sprite_sheet(animation_frames, spacing, background_color) ==
    IF animation_frames = <<>> THEN Raised("ValueError")
    ELSE LET animation_types == SortedKinds(DictKeys(animation_frames))
             first_frames == DictValues(animation_frames)[1]
         IN  IF first_frames = <<>> THEN Raised("IndexError")
             ELSE LET frame_width == first_frames[1].size[1]
                      frame_height == first_frames[1].size[2]
                      max_frames == MaxLenOf(DictValues(animation_frames))
                      total_width == SheetWidth(max_frames, frame_width, spacing)
                      total_height == SheetHeight(Len(animation_types),
                                                  frame_height, spacing)
                      sprite_sheet == Image_new("RGBA",
                                                <<total_width, total_height>>,
                                                background_color)
                  IN  Returned(PasteRows(sprite_sheet, animation_frames,
                                         animation_types, 1, 0,
                                         frame_width + spacing,
                                         frame_height + spacing))

(***************************************************************************)
(* spritesheet.upscale_nearest_neighbor and create_grid_layout             *)
(***************************************************************************)
\* a variant of upscale_nearest_neighbor that repeats the image as tiles
upscale_nearest_neighbor_Tiled(image, scale) ==
    [mode |-> image.mode,
     size |-> <<image.size[1] * scale, image.size[2] * scale>>,
     data |-> [p \in Coords(<<image.size[1] * scale, image.size[2] * scale>>) |->
                 image.data[<<p[1] % image.size[1], p[2] % image.size[2]>>]]]

\* spritesheet.py:219-221: Image.resize(new_size, Image.NEAREST) for an
\* integer scale
upscale_nearest_neighbor(image, scale) ==
    [mode |-> image.mode,
     size |-> <<image.size[1] * scale, image.size[2] * scale>>,
     data |-> [p \in Coords(<<image.size[1] * scale, image.size[2] * scale>>) |->
                 image.data[<<p[1] \div scale, p[2] \div scale>>]]]

\* a variant of GridRows that rounds the row count down
GridRows_Floor(n, cols) == n \div cols

\* spritesheet.py:246
GridRows(n, cols) == (n + cols - 1) \div cols

\* spritesheet.py:248-249
GridExtent(cells, cell_size, spacing) == cells * cell_size + (cells + 1) * spacing

\* a variant of GridOrigin that leaves out the outer padding
GridOrigin_NoPad(cell, cell_size, spacing) == cell * (cell_size + spacing)

\* spritesheet.py:256-257
GridOrigin(cell, cell_size, spacing) == spacing + cell * (cell_size + spacing)

\* spritesheet.py:253-258: images are indexed from 1 here, idx from 0
RECURSIVE PasteGrid(_, _, _, _, _, _, _)
PasteGrid(grid, images, i, cols, img_width, img_height, spacing) ==
    IF i > Len(images) THEN grid
    ELSE LET idx == i - 1
             row == idx \div cols
             col == idx % cols
             x == GridOrigin(col, img_width, spacing)
             y == GridOrigin(row, img_height, spacing)
         IN  PasteGrid(paste(grid, images[i], <<x, y>>), images, i + 1, cols,
                       img_width, img_height, spacing)

create_grid_layout(images, cols, spacing, background_color) ==
    IF images = <<>> THEN Raised("ValueError")
    ELSE LET img_width == images[1].size[1]
             img_height == images[1].size[2]
             rows == GridRows(Len(images), cols)
             total_width == GridExtent(cols, img_width, spacing)
             total_height == GridExtent(rows, img_height, spacing)
             grid == Image_new("RGBA", <<total_width, total_height>>,
                               background_color)
         IN  Returned(PasteGrid(grid, images, 1, cols, img_width, img_height,
                                spacing))

(***************************************************************************)
(* The disk: a function from paths to the images written there.            *)
(***************************************************************************)
NoFiles == <<>>
None == <<"None">>
WriteFile(fs, path, img) ==
    [q \in (DOMAIN fs) \cup {path} |-> IF q = path THEN img ELSE fs[q]]

(***************************************************************************)
(* preview.create_pack_preview                                             *)
(***************************************************************************)
PreviewLimit == 20
PreviewSpacingUnit == 8
HeaderUnit == 80
TitleRow == 10
InfoRow == 40
PreviewBg == <<26, 26, 26, 255>>
TitleFill == <<255, 255, 255, 255>>
InfoFill == <<200, 200, 200, 255>>

\* a variant of Take that keeps the whole list
Take_All(seq, n) == seq

\* preview.py:39: seq[:n]
Take(seq, n) == SubSeq(seq, 1, Min2(n, Len(seq)))

\* preview.py:39-46
preview_sprites_of(sprite_sheets, scale) ==
    LET shown == Take(sprite_sheets, PreviewLimit)
    IN  [j \in 1..Len(shown) |->
            LET frame_height == shown[j].size[2]
                frame_width == frame_height
            IN  upscale_nearest_neighbor(crop(shown[j], frame_width, frame_height),
                                         scale)]

\* preview.py:69-86: the two centred lines of text.  A line of text is
\* abstracted to the one pixel at the horizontal centre of its row, which
\* lies inside the header band as the glyphs do.
draw_text(preview, row, fill) ==
    LET at == <<preview.size[1] \div 2, row>>
    IN  IF at \in Coords(preview.size)
        THEN [preview EXCEPT !.data[at] = fill]
        ELSE preview

\* font is the outcome of ImageFont.truetype (preview.py:62-67): "truetype",
\* or the exception it raises; only OSError / IOError is caught.
FontOutcomes == {"truetype", "OSError", "ImportError"}

\* a variant of HeaderHeight that does not grow with the scale
HeaderHeight_Unscaled(scale) == HeaderUnit

\* preview.py:54
HeaderHeight(scale) == HeaderUnit * scale

\* preview.py:33-89
create_pack_preview(sprite_sheets, scale, cols, font) ==
    IF sprite_sheets = <<>> THEN Raised("ValueError")
    ELSE LET preview_sprites == preview_sprites_of(sprite_sheets, scale)
             spacing == PreviewSpacingUnit * scale
             grid == create_grid_layout(preview_sprites, cols, spacing,
                                        PreviewBg).image
             header_height == HeaderHeight(scale)
             final_width == grid.size[1]
             final_height == grid.size[2] + header_height
             preview == Image_new("RGBA", <<final_width, final_height>>,
                                  PreviewBg)
             titled == draw_text(preview, TitleRow * scale, TitleFill)
             informed == draw_text(titled, InfoRow * scale, InfoFill)
         IN  IF font \notin {"truetype", "OSError"} THEN Raised(font)
             ELSE Returned(paste(informed, grid, <<0, header_height>>))

\* a variant of save_preview that writes before the outcome is known
save_preview_Always(fs, preview, output_path) ==
    IF output_path # None THEN WriteFile(fs, output_path, preview.image) ELSE fs

\* preview.py:91-92, reached only when nothing was raised before: the disk
\* after the call whose outcome is preview
save_preview(fs, preview, output_path) ==
    IF preview.status = "ok" /\ output_path # None
    THEN WriteFile(fs, output_path, preview.image)
    ELSE fs

\* spritesheet.py:151-163 save_frames_to_disk; i counts from 1 as enumerate
FrameFilename(i, variant_index) ==
    IF variant_index > 0 THEN <<"frame_", i, "_variant_", variant_index, ".png">>
    ELSE <<"frame_", i, ".png">>

RECURSIVE save_frames_to_disk(_, _, _, _, _, _)
save_frames_to_disk(fs, frames, i, creature_id, animation_type, variant_index) ==
    IF i > Len(frames) THEN fs
    ELSE save_frames_to_disk(
             WriteFile(fs, <<creature_id, KindValue(animation_type),
                             FrameFilename(i, variant_index)>>, frames[i]),
             frames, i + 1, creature_id, animation_type, variant_index)

\* spritesheet.py:193-202
SheetFilename(animation_type, variant_index, is_combined) ==
    IF is_combined
    THEN IF variant_index > 0 THEN <<"combined", "_variant_", variant_index, ".png">>
         ELSE <<"combined", ".png">>
    ELSE IF variant_index > 0
         THEN <<KindValue(animation_type), "_variant_", variant_index, ".png">>
         ELSE <<KindValue(animation_type), ".png">>

\* spritesheet.py:190-206: the path the sheet is saved at
SheetPath(creature_id, animation_type, variant_index, is_combined) ==
    <<creature_id, "sprite_sheets",
      SheetFilename(animation_type, variant_index, is_combined)>>

(***************************************************************************)
(* The text of a path.  The names above keep the pieces an f-string puts   *)
(* together; here the pieces are formatted the way the f-strings do it.    *)
(***************************************************************************)
\* the format specs 03d and 02d: decimal digits, zero-padded to the width
RECURSIVE ZeroPad(_, _)
ZeroPad(digits, width) ==
    IF Len(digits) >= width THEN digits ELSE ZeroPad("0" \o digits, width)

format_d(n, width) == ZeroPad(ToString(n), width)

\* pipeline.py:67: f"creature_{creature_index + 1:03d}"
creature_id_text(creature_id) == creature_id[1] \o format_d(creature_id[2], 3)

\* a variant of frame_filename_text that leaves the variant suffix out
frame_filename_text_NoVariant(filename) ==
    filename[1] \o format_d(filename[2], 2) \o ".png"

\* spritesheet.py:156-159
frame_filename_text(filename) ==
    IF Len(filename) = 5
    THEN filename[1] \o format_d(filename[2], 2) \o filename[3]
         \o format_d(filename[4], 1) \o filename[5]
    ELSE filename[1] \o format_d(filename[2], 2) \o filename[3]

\* spritesheet.py:193-202
sheet_filename_text(filename) ==
    IF Len(filename) = 4
    THEN filename[1] \o filename[2] \o format_d(filename[3], 1) \o filename[4]
    ELSE filename[1] \o filename[2]

\* spritesheet.py:151-161, 190-204: the path below the creatures directory
path_text(path) ==
    creature_id_text(path[1]) \o "/" \o path[2] \o "/"
    \o (IF path[2] = "sprite_sheets" THEN sheet_filename_text(path[3])
        ELSE frame_filename_text(path[3]))

(***************************************************************************)
(* pipeline.CreaturePackPipeline                                           *)
(***************************************************************************)
SheetSpacing == 2
HueStep == 60

\* models.py:119-122 GenerationConfig.animation_types
ConfigAnimationTypes == <<"IDLE", "WALK", "ATTACK">>

KindIndex(kind) == CHOOSE i \in 1..3 : ConfigAnimationTypes[i] = kind

\* generator.py:48-71 generate_animation_frames: num_frames RGBA frames of the
\* configured resolution whose content varies with creature, kind and frame.
generate_animation_frames(resolution, colours, creature_index, animation_type, num_frames) ==
    [i \in 1..num_frames |->
        PatternImage(resolution, colours,
                     creature_index + 3 * (KindIndex(animation_type) - 1) + i)]

\* pipeline.py:67
CreatureId(creature_index) == <<"creature_", creature_index + 1>>

\* pipeline.py:85-86: hue shift and saturation factor (in tenths) of a variant
VariantHueShift(variant_index) == variant_index * HueStep
VariantSaturation(variant_index) == <<8 + 2 * variant_index, 10>>

\* pipeline.py:72-80: the frames of every configured kind as the generator
\* returns them, before any colour variation
generated_frames(resolution, colours, num_frames, creature_index) ==
    [k \in 1..Len(ConfigAnimationTypes) |->
        <<ConfigAnimationTypes[k],
          generate_animation_frames(resolution, colours, creature_index,
                                    ConfigAnimationTypes[k], num_frames)>>]

\* pipeline.py:70-91
generate_creature(resolution, colours, num_frames, creature_index, variant_index) ==
    LET generated == generated_frames(resolution, colours, num_frames, creature_index)
    IN  [k \in 1..Len(generated) |->
            LET base == generated[k][2]
            IN  <<generated[k][1],
                  IF variant_index > 0
                  THEN [i \in 1..Len(base) |->
                          apply_color_variant(base[i],
                                              VariantHueShift(variant_index),
                                              VariantSaturation(variant_index))]
                  ELSE base>>]

\* pipeline.py:114-133: the loop over animation_frames.items() from item k on;
\* st is [status, paths, files]
RECURSIVE SaveAnimations(_, _, _, _, _)
SaveAnimations(st, animation_frames, k, creature_id, variant_index) ==
    IF k > Len(animation_frames) THEN st
    ELSE LET anim_type == animation_frames[k][1]
             frames == animation_frames[k][2]
             saved == save_frames_to_disk(st.files, frames, 1, creature_id,
                                          anim_type, variant_index)
             sheet == create_animation_sprite_sheet(frames, SheetSpacing, Clear)
             sheet_path == SheetPath(creature_id, anim_type, variant_index, FALSE)
         IN  IF sheet.status # "ok"
             THEN [st EXCEPT !.status = sheet.status, !.files = saved]
             ELSE SaveAnimations(
                      [status |-> "ok",
                       paths |-> Append(st.paths, <<KindValue(anim_type), sheet_path>>),
                       files |-> WriteFile(saved, sheet_path, sheet.image)],
                      animation_frames, k + 1, creature_id, variant_index)

\* pipeline.py:110-147
save_creature_assets(fs, creature_id, animation_frames, variant_index) ==
    LET st == SaveAnimations([status |-> "ok", paths |-> <<>>, files |-> fs],
                             animation_frames, 1, creature_id, variant_index)
        combined_sheet == create_combined_sprite_sheet(animation_frames,
                                                       SheetSpacing, Clear)
        combined_path == SheetPath(creature_id, "IDLE", variant_index, TRUE)
    IN  IF st.status # "ok" THEN st
        ELSE IF combined_sheet.status # "ok"
        THEN [st EXCEPT !.status = combined_sheet.status]
        ELSE [status |-> "ok",
              paths |-> Append(st.paths, <<"combined", combined_path>>),
              files |-> WriteFile(st.files, combined_path, combined_sheet.image)]

(***************************************************************************)
(* Inputs of the calls.                                                    *)
(***************************************************************************)
MaxImages == 3
MaxCols == 2
MaxScale == 2
MaxCreatures == 2
MaxVariants == 2

Styles == {OpaqueSeq, AlphaSeq}
Scales == {1, MaxScale}
HueShifts == {-60, 0, 60, 200}
SatFactors == {<<-5, 10>>, <<0, 10>>, <<5, 10>>, <<10, 10>>, <<12, 10>>, <<20, 10>>}

\* images handed to apply_color_variant: RGBA and RGB, solid and patterned
VariantImages ==
    UNION {{Image_new("RGBA", size, c) : c \in {Red, Yellow, Slate, Dark, Clear, Semi}}
           \cup {Image_new("RGB", size, c) : c \in {Green, Slate}}
           \cup {PatternImage(size, cs, 0) : cs \in Styles} : size \in Sizes}

Grown(size, g) == <<size[1] + g, size[2] + g>>

\* frames handed to create_animation_sprite_sheet: of size base, with one
\* that is larger
FrameChoices(base) ==
    {Image_new("RGBA", base, Red), Image_new("RGBA", base, Semi),
     Image_new("RGB", base, Blue), PatternImage(base, OpaqueSeq, 0),
     PatternImage(Grown(base, 1), OpaqueSeq, 1)}

SeqsUpTo(S, n) == UNION {[1..k -> S] : k \in 0..n}

\* the orders in which a dict over some of the kinds can have been filled
KindOrders ==
    {ks \in SeqsUpTo(AnimationType, 3) :
        \A i, j \in 1..Len(ks) : i # j => ks[i] # ks[j]}

\* an animation mapping: the kinds in insertion order, counts[k] frames for
\* the k-th kind, of size base except for the kind at position odd (if any)
AnimationFrames(ks, counts, odd, base, colours) ==
    [k \in 1..Len(ks) |->
        <<ks[k], generate_animation_frames(
                     IF k = odd THEN Grown(base, 1) ELSE base, colours, 0,
                     ks[k], counts[k])>>]

GridImages(n, base, colours, odd) ==
    [i \in 1..n |->
        PatternImage(IF i = odd THEN Grown(base, 1) ELSE base, colours, i)]

\* the calls of create_pack_preview, as <<length of the list, size of a
\* sheet, scale, cols>>: at scale 1 up to two sheets that are square, wider
\* than high or higher than wide, and a list longer than the preview shows,
\* in one column and in the default five; at the largest scale one column
PreviewShapes ==
    ((0..2) \X {<<1, 1>>, <<2, 1>>, <<4, 2>>, <<1, 2>>} \X {1} \X {1, 5})
    \cup ({PreviewLimit + 1} \X {<<2, 1>>} \X {1} \X {1, 5})
    \cup ((1..2) \X {<<2, 1>>, <<4, 2>>} \X {MaxScale} \X {1})
PreviewPath == <<"previews", "pack_preview.png">>

\* the names handed to generate_pack_filename: upper and lower case letters
\* and spaces
MaxNameLen == 2
Names == SeqsUpTo({"A", "b", " "}, MaxNameLen)

\* pipeline.py:230: the scale generate_pack asks the preview for
PackPreviewScale == 8

\* the num_creatures and num_variants of a pack configuration
PackCreatures == {0, 1, MaxCreatures}
PackVariants == {0, 1, MaxVariants}

(***************************************************************************)
(* Strings are sequences of one-character strings.                         *)
(***************************************************************************)
\* str.lower() on one character of the alphabet used here
LowerChar(c) ==
    CASE c = "A" -> "a"
      [] c = "B" -> "b"
      [] OTHER -> c

\* str.lower()
str_lower(s) == [i \in 1..Len(s) |-> LowerChar(s[i])]

\* str.replace(old, new) for one-character old and new
str_replace(s, old, new) == [i \in 1..Len(s) |-> IF s[i] = old THEN new ELSE s[i]]

DigitChar(d) == <<"0", "1", "2", "3", "4", "5", "6", "7", "8", "9">>[d + 1]

\* str(n), the decimal digits of n >= 0
RECURSIVE str_of_int(_)
str_of_int(n) ==
    IF n < 10 THEN <<DigitChar(n)>>
    ELSE str_of_int(n \div 10) \o <<DigitChar(n % 10)>>

\* sep.join(parts)
RECURSIVE str_join(_, _)
str_join(sep, parts) ==
    IF parts = <<>> THEN <<>>
    ELSE IF Len(parts) = 1 THEN parts[1]
    ELSE parts[1] \o sep \o str_join(sep, Tail(parts))

\* t in s
Contains(s, t) ==
    \E i \in 0..(Len(s) - Len(t)) : SubSeq(s, i + 1, i + Len(t)) = t

(***************************************************************************)
(* packaging.generate_pack_filename                                        *)
(***************************************************************************)
\* packaging.py:70
PixelCreatures ==
    <<"p", "i", "x", "e", "l", "_", "c", "r", "e", "a", "t", "u", "r", "e", "s">>

\* packaging.py:66-77; a pack_id of None or "" is skipped
generate_pack_filename(pack_name, theme_name, resolution, pack_id) ==
    LET safe_name == str_replace(str_lower(pack_name), " ", "_")
        safe_theme == str_replace(str_lower(theme_name), " ", "_")
        parts == <<PixelCreatures>>
                 \o (IF pack_id # None /\ pack_id # <<>> THEN <<pack_id>> ELSE <<>>)
                 \o <<safe_theme,
                      str_of_int(resolution[1]) \o <<"x">> \o str_of_int(resolution[2])>>
    IN  str_join(<<"_">>, parts)

(***************************************************************************)
(* Directory trees: a function from paths to "dir" or "file".  A path is   *)
(* the sequence of the names below the pack directory, a name a tuple of   *)
(* the pieces it is put together from.                                     *)
(***************************************************************************)
Exists(t, path) == path \in DOMAIN t
IsDir(t, path) == path \in DOMAIN t /\ t[path] = "dir"
IsFile(t, path) == path \in DOMAIN t /\ t[path] = "file"

\* Path.mkdir(parents=True, exist_ok=True)
mkdir(t, path) ==
    [q \in (DOMAIN t) \cup {SubSeq(path, 1, k) : k \in 0..Len(path)} |->
        IF q \in DOMAIN t THEN t[q] ELSE "dir"]

\* Path.iterdir()
Children(t, path) ==
    {p \in DOMAIN t : Len(p) = Len(path) + 1 /\ SubSeq(p, 1, Len(path)) = path}

\* what a function of the package hands back: a value, or an exception
Value(v) == [status |-> "ok", value |-> v]
Exception(e) == [status |-> e, value |-> None]

(***************************************************************************)
(* packaging.validate_pack_structure                                       *)
(***************************************************************************)
\* packaging.py:109-113
RequiredPaths ==
    {<<<<"creatures">>>>, <<<<"metadata.json">>>>, <<<<"README.txt">>>>}

\* packaging.py:130
RequiredSubdirs == {<<"idle">>, <<"walk">>, <<"attack">>, <<"sprite_sheets">>}

\* packaging.py:122
CreatureDirs(t) == {d \in Children(t, <<<<"creatures">>>>) : t[d] = "dir"}

\* packaging.py:109-138; first is the creature directory that iterdir lists
\* first, the order of a listing being the file system's
validate_pack_structure(t, first) ==
    IF \E path \in RequiredPaths : ~Exists(t, path) THEN Value(FALSE)
    ELSE IF ~IsDir(t, <<<<"creatures">>>>) THEN Exception("NotADirectoryError")
    ELSE IF CreatureDirs(t) = {} THEN Value(FALSE)
    ELSE IF \E subdir \in RequiredSubdirs : ~Exists(t, Append(first, subdir))
    THEN Value(FALSE)
    ELSE Value(TRUE)

\* the creature directories iterdir can list first
FirstListed(t) ==
    IF IsDir(t, <<<<"creatures">>>>) /\ CreatureDirs(t) # {}
    THEN CreatureDirs(t) ELSE {None}

\* the shapes of a creature directory: complete, one subdirectory missing,
\* empty, with a file in the place of a subdirectory, or a plain file
CreatureShapes == {"absent", "complete", "no_walk", "empty", "file"}

\* a pack directory (the empty path is the directory itself) with the given kind of creatures entry ("none", "file"
\* or "dir"), with or without metadata.json and README.txt, and creature i
\* of shape shapes[i]
PackDirectory(creatures_kind, has_metadata, has_readme, shapes) ==
    LET creatures == <<<<"creatures">>>>
        dir(i) == Append(creatures, <<"creature_", i>>)
        subdirs(i) == CASE shapes[i] = "complete" -> RequiredSubdirs
                        [] shapes[i] = "no_walk" -> RequiredSubdirs \ {<<"walk">>}
                        [] OTHER -> {}
        entries ==
            {<<<<>>, "dir">>}
            \cup (IF creatures_kind # "none" THEN {<<creatures, creatures_kind>>} ELSE {})
            \cup (IF has_metadata THEN {<<<<<<"metadata.json">>>>, "file">>} ELSE {})
            \cup (IF has_readme THEN {<<<<<<"README.txt">>>>, "file">>} ELSE {})
            \cup (IF creatures_kind # "dir" THEN {}
                  ELSE UNION {
                      IF shapes[i] = "absent" THEN {}
                      ELSE {<<dir(i), IF shapes[i] = "file" THEN "file" ELSE "dir">>}
                           \cup {<<Append(dir(i), sub), "dir">> : sub \in subdirs(i)}
                      : i \in DOMAIN shapes})
    IN  [path \in {e[1] : e \in entries} |->
            (CHOOSE e \in entries : e[1] = path)[2]]

(***************************************************************************)
(* models.PackMetadata, models.CreatureMetadata and their JSON form.       *)
(* A Python tuple and a Python list are told apart by their type, and so   *)
(* are an object of a dataclass and a dict; a dict with string keys is the *)
(* sequence of its items.  A JSON document has arrays and objects only.    *)
(***************************************************************************)
py_tuple(items) == [type |-> "tuple", items |-> items]
py_list(items) == [type |-> "list", items |-> items]

\* models.py:12-17: the members in the order of their definition
AnimationTypeMembers == <<"IDLE", "WALK", "ATTACK">>

\* metadata.py:13-44; now is the reading of the clock
create_pack_metadata(pack_id, pack_name, theme_name, resolution, num_creatures, num_variants, now) ==
    [class |-> "PackMetadata", pack_id |-> pack_id, pack_name |-> pack_name,
     theme_name |-> theme_name, generation_date |-> now,
     resolution |-> resolution, num_creatures |-> num_creatures,
     num_variants |-> num_variants,
     animation_types |-> py_list([k \in 1..Len(AnimationTypeMembers) |->
                                     KindValue(AnimationTypeMembers[k])]),
     creatures |-> py_list(<<>>)]

\* metadata.py:47-81
create_creature_metadata(creature_id, theme, base_color, variant_index, resolution, paths, frames_per_animation, now) ==
    [class |-> "CreatureMetadata", creature_id |-> creature_id, theme |-> theme,
     base_color |-> base_color, variant_index |-> variant_index,
     resolution |-> resolution,
     animations |-> [k \in 1..Len(AnimationTypeMembers) |->
                        <<KindValue(AnimationTypeMembers[k]), frames_per_animation>>],
     sprite_sheet_paths |-> paths, generation_time |-> now]

\* a variant of append_creature that puts the new entry first
append_creature_Front(metadata, creature_meta) ==
    [metadata EXCEPT !.creatures = py_list(<<creature_meta>> \o @.items)]

\* pipeline.py:195: pack_metadata.creatures.append(creature_meta)
append_creature(metadata, creature_meta) ==
    [metadata EXCEPT !.creatures = py_list(Append(@.items, creature_meta))]

\* models.py:64-75: CreatureMetadata.to_dict
creature_to_dict(creature) ==
    [class |-> "dict", creature_id |-> creature.creature_id,
     theme |-> creature.theme, base_color |-> creature.base_color,
     variant_index |-> creature.variant_index,
     resolution |-> py_list(creature.resolution.items),
     animations |-> creature.animations,
     sprite_sheet_paths |-> creature.sprite_sheet_paths,
     generation_time |-> creature.generation_time]

\* models.py:92-104: PackMetadata.to_dict
pack_to_dict(metadata) ==
    [class |-> "dict", pack_id |-> metadata.pack_id,
     pack_name |-> metadata.pack_name, theme_name |-> metadata.theme_name,
     generation_date |-> metadata.generation_date,
     resolution |-> py_list(metadata.resolution.items),
     num_creatures |-> metadata.num_creatures,
     num_variants |-> metadata.num_variants,
     animation_types |-> metadata.animation_types,
     creatures |-> py_list([i \in 1..Len(metadata.creatures.items) |->
                              creature_to_dict(metadata.creatures.items[i])])]

\* json.dump: a list and a tuple both become an array, a dict an object
json_dump(data) ==
    LET json_array(sequence) == [type |-> "array", items |-> sequence.items]
    IN
    [data EXCEPT
        !.class = "object",
        !.resolution = json_array(@),
        !.animation_types = json_array(@),
        !.creatures =
            [type |-> "array",
             items |-> [i \in 1..Len(@.items) |->
                          [@.items[i] EXCEPT !.class = "object",
                                             !.resolution = json_array(@)]]]]

\* json.load: an array becomes a list, an object a dict
json_load(document) ==
    LET json_list(array) == py_list(array.items)
    IN
    [document EXCEPT
        !.class = "dict",
        !.resolution = json_list(@),
        !.animation_types = json_list(@),
        !.creatures =
            py_list([i \in 1..Len(@.items) |->
                       [@.items[i] EXCEPT !.class = "dict",
                                          !.resolution = json_list(@)]])]

\* a variant of tuple_of that hands the list back
tuple_of_Same(sequence) == sequence

\* metadata.py:118, 131: tuple(...)
tuple_of(sequence) == py_tuple(sequence.items)

\* metadata.py:111-136: what load_metadata builds from the parsed document
load_metadata(data) ==
    LET creatures ==
            [i \in 1..Len(data.creatures.items) |->
                LET creature_data == data.creatures.items[i]
                IN  [class |-> "CreatureMetadata",
                     creature_id |-> creature_data.creature_id,
                     theme |-> creature_data.theme,
                     base_color |-> creature_data.base_color,
                     variant_index |-> creature_data.variant_index,
                     resolution |-> tuple_of(creature_data.resolution),
                     animations |-> creature_data.animations,
                     sprite_sheet_paths |-> creature_data.sprite_sheet_paths,
                     generation_time |-> creature_data.generation_time]]
    IN  [class |-> "PackMetadata", pack_id |-> data.pack_id,
         pack_name |-> data.pack_name, theme_name |-> data.theme_name,
         generation_date |-> data.generation_date,
         resolution |-> tuple_of(data.resolution),
         num_creatures |-> data.num_creatures,
         num_variants |-> data.num_variants,
         animation_types |-> data.animation_types,
         creatures |-> py_list(creatures)]

\* the path of metadata.json below the pack directory
MetadataPath == <<<<"metadata.json">>>>

\* creature metadata i of a pack handed to save_metadata: every field varies
\* with i, the dict of paths has i items
SampleCreature(i, resolution) ==
    create_creature_metadata(
        <<"creature_", i, "_v", i - 1>>, <<"theme", i>>, <<"#", i>>, i - 1,
        py_tuple(<<resolution[1], resolution[2] + i>>),
        [k \in 1..i |-> <<KindValue(AnimationTypeMembers[k]), <<"path", k, i>>>>],
        i, <<"time", i>>)

RECURSIVE SamplePack(_, _)
SamplePack(n, resolution) ==
    IF n = 0
    THEN create_pack_metadata("pack_test", "Test Pack", "test_theme",
                              py_tuple(resolution), 5, 3, <<"time", 0>>)
    ELSE append_creature(SamplePack(n - 1, resolution),
                         SampleCreature(n, resolution))

PackMetadatas ==
    {SamplePack(n, resolution) : n \in {0, 1, MaxCreatures}, resolution \in Sizes}

(***************************************************************************)
(* packaging.export_pack and the functions it calls                        *)
(***************************************************************************)
\* Path.rglob("*") filtered by is_file()
FilesBelow(t) == {p \in DOMAIN t : t[p] = "file"}

\* packaging.py:151-181, without the sizes in bytes
get_pack_statistics(t) ==
    IF ~Exists(t, <<>>)
    THEN [total_files |-> 0, num_creatures |-> 0, num_frames |-> 0,
          num_sprite_sheets |-> 0]
    ELSE LET NameOf(path) == path[Len(path)]
             ParentName(path) == IF Len(path) >= 2 THEN path[Len(path) - 1]
                                 ELSE <<>>
             frames == {p \in FilesBelow(t) : NameOf(p)[1] = "frame_"}
         IN  [total_files |-> Cardinality(FilesBelow(t)),
              num_creatures |-> IF Exists(t, <<<<"creatures">>>>)
                                THEN Cardinality(CreatureDirs(t)) ELSE 0,
              num_frames |-> Cardinality(frames),
              num_sprite_sheets |->
                  Cardinality({p \in FilesBelow(t) \ frames :
                                  ParentName(p) = <<"sprite_sheets">>})]

\* packaging.py:36-42: the archive written at output_path, complete or cut
\* short by an error
ZipFile(output_path, members, complete) ==
    [path |-> output_path, members |-> members, complete |-> complete]

\* no archive in the output directory
NoArchive == [path |-> None, members |-> {}, complete |-> FALSE]

\* packaging.py:16-45; fault is the error of the file system, if any: "open"
\* when the archive cannot be created, "write" when adding a file fails
create_pack_archive(t, output_path, fault) ==
    CASE fault = "open" -> [outcome |-> Exception("OSError"), archive |-> NoArchive]
      [] fault = "write" ->
            [outcome |-> Exception("OSError"),
             archive |-> ZipFile(output_path, {}, FALSE)]
      [] OTHER ->
            [outcome |-> Value(output_path),
             archive |-> ZipFile(output_path, FilesBelow(t), TRUE)]

\* packaging.py:88-96 with keep_zip=True; a fault stops rmtree before it
\* removes the directory itself
cleanup_temporary_files(t, fault) ==
    IF ~IsDir(t, <<>>) THEN [outcome |-> Value(None), tree |-> t]
    ELSE IF fault = "rmtree"
    THEN [outcome |-> Exception("OSError"), tree |-> mkdir(NoFiles, <<>>)]
    ELSE [outcome |-> Value(None), tree |-> NoFiles]

\* packaging.py:204-209
NewExportInfo ==
    [success |-> FALSE, archive_path |-> None, statistics |-> None,
     error |-> None]

\* a variant of IsException that knows the errors of the operating system only
IsException_OSErrorOnly(e) == e = "OSError"

\* packaging.py:241: except Exception; the errors of the steps are all of
\* that class
IsException(e) == e \in {"OSError", "NotADirectoryError"}

\* packaging.py:241-243: the handler of the try block
on_exception(export_info, e) == [export_info EXCEPT !.error = <<e>>]

\* packaging.py:223-229
archive_path_of(pack_metadata) ==
    generate_pack_filename(pack_metadata.pack_name, pack_metadata.theme_name,
                           pack_metadata.resolution.items, pack_metadata.pack_id)
    \o <<".", "z", "i", "p">>

\* a variant of AfterStatistics that cleans up without an archive
AfterStatistics_CleanupAlone(create_archive, cleanup) ==
    IF create_archive THEN "archive" ELSE IF cleanup THEN "cleanup" ELSE "finish"

\* packaging.py:223, 234: what follows the statistics, and the archive
AfterStatistics(create_archive, cleanup) ==
    IF create_archive THEN "archive" ELSE "finish"

AfterArchive(cleanup) == IF cleanup THEN "cleanup" ELSE "finish"

\* the path of README.txt and of the preview below the pack directory
ReadmePath == <<<<"README.txt">>>>
PreviewsDir == <<<<"previews">>>>
PreviewFile == <<<<"previews">>, <<"pack_preview.png">>>>

\* pipeline.py:110, spritesheet.py:151, 190: where an image of the disk lies
\* below the pack directory
TreePath(path) == <<<<"creatures">>, path[1], <<path[2]>>, path[3]>>

\* the directories and files the saved images make
tree_of_images(fs) ==
    LET image_paths == {TreePath(p) : p \in DOMAIN fs}
    IN  [q \in UNION {{SubSeq(p, 1, k) : k \in 0..Len(p)} : p \in image_paths} |->
            IF q \in image_paths THEN "file" ELSE "dir"]

\* the encodings open() takes from the locale when it is given none: UTF-8,
\* and a code page without the box-drawing characters of the README's
\* directory listing (metadata.py:170-186)
LocaleEncodings == {"utf-8", "cp1252"}

\* metadata.py:242-254: open(output_path, "w") creates the file and write
\* encodes the text with the locale's encoding
save_readme(t, encoding) ==
    [status |-> IF encoding = "utf-8" THEN "ok" ELSE "UnicodeEncodeError",
     tree |-> WriteFile(mkdir(t, <<>>), ReadmePath, "file")]

\* pipeline.py:211-234: metadata.json, README.txt and, when sheets were
\* collected, the preview are written below the pack directory
written_after_loops(t, sheets, encoding) ==
    LET with_metadata == WriteFile(mkdir(t, <<>>), MetadataPath, "file")
        with_readme == save_readme(with_metadata, encoding)
    IN  IF with_readme.status = "ok" /\ sheets # <<>>
        THEN [with_readme EXCEPT
                 !.tree = WriteFile(mkdir(@, PreviewsDir), PreviewFile, "file")]
        ELSE with_readme

\* the pack directories export_pack is called on directly
ExportDirectories ==
    {PackDirectory(creatures_kind, has_metadata, TRUE,
                   [i \in 1..MaxCreatures |-> shape]) :
        creatures_kind \in {"none", "file", "dir"}, has_metadata \in BOOLEAN,
        shape \in {"complete", "no_walk"}}

(***************************************************************************)
(* config.Config and config.get_config                                     *)
(***************************************************************************)
MaxCalls == 3

\* config.py:120: _config = None
NoConfig == [id |-> 0]

\* dict.get(key, default)
get(dict, key, default) == IF key \in DOMAIN dict THEN dict[key] ELSE default

\* config.py:13-46: the names of DEFAULT_THEMES
DefaultThemes == {"cute_forest", "dark_dungeon", "robot_aliens", "ocean_creatures"}

\* the arguments of get_config: no file, the path of a file that does not
\* exist, and two files
NoConfigFile == "None"
ConfigFiles == {NoConfigFile, "absent.yaml", "a.yaml", "b.yaml"}
ConfigFileExists(config_file) == config_file \in {"a.yaml", "b.yaml"}

\* what yaml.safe_load reads from the two files
ConfigFileData(config_file) ==
    IF config_file = "a.yaml"
    THEN [defaults |-> [resolution |-> py_list(<<64, 64>>), theme |-> "lava",
                        num_variants |-> 1],
          themes |-> {"lava"}]
    ELSE [defaults |-> [num_creatures |-> 3, output_dir |-> "packs"]]

\* config.py:68-74
load_defaults(self, data) ==
    IF "defaults" \notin DOMAIN data THEN self
    ELSE LET defaults == data.defaults
         IN  [self EXCEPT
                 !.default_output_dir = get(defaults, "output_dir", @),
                 !.default_resolution = tuple_of(get(defaults, "resolution", @)),
                 !.default_theme = get(defaults, "theme", @),
                 !.default_num_creatures = get(defaults, "num_creatures", @),
                 !.default_num_variants = get(defaults, "num_variants", @)]

\* config.py:76-86
load_themes(self, data) ==
    IF "themes" \notin DOMAIN data THEN self
    ELSE [self EXCEPT !.themes = @ \cup data.themes]

\* config.py:50-63: Config(config_file); id tells the objects apart
Config(config_file, id) ==
    LET self == [id |-> id, themes |-> DefaultThemes,
                 default_output_dir |-> "output",
                 default_resolution |-> py_tuple(<<32, 32>>),
                 default_theme |-> "cute_forest",
                 default_num_creatures |-> 10, default_num_variants |-> 2]
    IN  IF config_file # NoConfigFile /\ ConfigFileExists(config_file)
        THEN load_themes(load_defaults(self, ConfigFileData(config_file)),
                         ConfigFileData(config_file))
        ELSE self

\* a variant of get_config that builds a Config on every call
get_config_Always(global, config_file, new_id) == Config(config_file, new_id)

\* config.py:123-136: the value of _config after the call, which is what the
\* call returns; new_id is the identity of an object created by the call
get_config(global, config_file, new_id) ==
    IF global = NoConfig THEN Config(config_file, new_id) ELSE global

(***************************************************************************)
(* Image objects.  A call receives image objects and writes pixels into    *)
(* image objects; objects is the sequence of the objects alive, an object  *)
(* is named by its index.  Equal images of one argument list are one       *)
(* object passed several times.                                            *)
(***************************************************************************)
\* spritesheet.py:86-88: all frames of all animations of a mapping, in insertion order
RECURSIVE AllFrames(_)
AllFrames(d) == IF d = <<>> THEN <<>> ELSE d[1][2] \o AllFrames(Tail(d))

\* the distinct images of a list, in the order of their first occurrence
RECURSIVE Objects(_)
Objects(imgs) ==
    IF imgs = <<>> THEN <<>>
    ELSE LET rest == Objects(SubSeq(imgs, 1, Len(imgs) - 1))
             last == imgs[Len(imgs)]
         IN  IF \E i \in 1..Len(rest) : rest[i] = last THEN rest
             ELSE Append(rest, last)

\* the objects a list of images names
IdsOf(imgs, objects) ==
    [i \in 1..Len(imgs) |-> CHOOSE id \in 1..Len(objects) : objects[id] = imgs[i]]

\* Image.new, Image.convert, Image.resize and Image.crop return an object
\* that did not exist before
NewObject(objects) == Len(objects) + 1

\* spritesheet.py:42-49: result, the image putalpha writes into
variant_object(objects, ids) == NewObject(objects)

\* a variant of sprite_sheet_object that pastes onto the first frame
sprite_sheet_object_FirstFrame(objects, ids) == ids[1]

\* spritesheet.py:76-81: sprite_sheet, the image the frames are pasted into
sprite_sheet_object(objects, ids) == NewObject(objects)

\* spritesheet.py:114-125
combined_sheet_object(objects, ids) == NewObject(objects)

\* spritesheet.py:251-258: grid
grid_object(objects, ids) == NewObject(objects)

\* spritesheet.py:221: what image.resize returns
resized_object(objects, ids) == NewObject(objects)

\* preview.py:58-89: preview, the image the text and the grid are drawn into
preview_object(objects, ids) == NewObject(objects)

\* the objects after a call that received imgs, wrote what it returns into
\* object target and returned that object
Call(imgs, target, outcome) ==
    LET objects == Objects(imgs)
    IN  IF outcome.status # "ok"
        THEN [objects |-> objects, inputs |-> IdsOf(imgs, objects), result |-> 0]
        ELSE [objects |-> [id \in 1..Max2(Len(objects), target) |->
                              IF id = target THEN outcome.image ELSE objects[id]],
              inputs |-> IdsOf(imgs, objects),
              result |-> target]

NoHeap == [objects |-> <<>>, inputs |-> <<>>, result |-> 0]

(***************************************************************************)
(* State.                                                                  *)
(***************************************************************************)
VARIABLES
    pc,                 \* "idle", "done", or the position in generate_pack:
                        \* "loop" (pipeline.py:173-174), "generated" (l.179)
                        \* and "saved" (l.185)
    op,                 \* the function called last
    args,               \* its arguments
    hsv_data,           \* apply_color_variant's list hsv_data
    result,             \* what the call returned or raised
    sprite_sheet_paths, \* save_creature_assets' dict, in insertion order
    files,              \* the disk
    pack,               \* generate_pack's configuration and loop indices
    all_sprite_sheets,  \* generate_pack's list all_sprite_sheets
    heap,               \* the image objects of the call: the objects, which
                        \* of them came in and which one went out
    retval,             \* what a call returned that is not an image
    tree,               \* the pack directory: a function from the paths
                        \* below it to "dir" or "file"
    config_global,      \* config.py:120, the module's global _config
    events,             \* the steps export_pack has taken, or the arguments
                        \* get_config was called with, oldest first
    archive             \* the ZIP file in the output directory, if any

\* what the calls on images leave alone
world == <<retval, tree, config_global, events, archive>>

vars == <<pc, op, args, hsv_data, result, sprite_sheet_paths, files, pack,
          all_sprite_sheets, heap, retval, tree, config_global, events, archive>>

NoArgs ==
    [base_image |-> NoImage, hue_shift |-> 0, saturation_factor |-> <<10, 10>>,
     frames |-> <<>>, animation_frames |-> <<>>, images |-> <<>>,
     sprite_sheets |-> <<>>, spacing |-> 0, background_color |-> Clear,
     cols |-> 1, scale |-> 1, font |-> "truetype", output_path |-> None,
     creature_id |-> None, variant_index |-> 0, generated_frames |-> <<>>,
     image |-> NoImage, pack_name |-> <<>>, theme_name |-> <<>>,
     resolution |-> <<1, 1>>, pack_id |-> None, metadata |-> None, create_archive |-> TRUE,
     cleanup |-> FALSE, pack_dir |-> NoFiles,
     config_file |-> NoConfigFile]

NoPack ==
    [resolution |-> <<1, 1>>, colours |-> OpaqueSeq, num_frames |-> 0,
     num_creatures |-> 0, num_variants |-> 0, creature_idx |-> 0,
     variant_idx |-> 0, metadata |-> None]

Init ==
    /\ pc = "idle"
    /\ op = "none"
    /\ args = NoArgs
    /\ hsv_data = <<>>
    /\ result = NoResult
    /\ sprite_sheet_paths = <<>>
    /\ files = NoFiles
    /\ pack = NoPack
    /\ all_sprite_sheets = <<>>
    /\ heap = NoHeap
    /\ retval = None
    /\ tree = NoFiles
    /\ config_global = NoConfig
    /\ events = <<>>
    /\ archive = NoArchive

(***************************************************************************)
(* Calls.                                                                  *)
(***************************************************************************)
ApplyColorVariant ==
    /\ pc = "idle"
    /\ \E base_image \in VariantImages, hue_shift \in HueShifts, sf \in SatFactors :
        /\ args' = [NoArgs EXCEPT !.base_image = base_image,
                                  !.hue_shift = hue_shift,
                                  !.saturation_factor = sf]
        /\ hsv_data' = hsv_transform(base_image, hue_shift, sf)
        /\ result' = Returned(apply_color_variant(base_image, hue_shift, sf))
        /\ heap' = LET imgs == <<base_image>>
                   IN  Call(imgs, variant_object(Objects(imgs), IdsOf(imgs, Objects(imgs))),
                            Returned(apply_color_variant(base_image, hue_shift, sf)))
    /\ op' = "apply_color_variant"
    /\ pc' = "done"
    /\ UNCHANGED <<sprite_sheet_paths, files, pack, all_sprite_sheets>>
    /\ UNCHANGED world

CreateAnimationSpriteSheet ==
    /\ pc = "idle"
    /\ \E base \in Sizes, spacing \in Spacings, background_color \in Backgrounds :
        \E frames \in SeqsUpTo(FrameChoices(base), MaxFrames) :
        /\ args' = [NoArgs EXCEPT !.frames = frames, !.spacing = spacing,
                                  !.background_color = background_color]
        /\ result' = create_animation_sprite_sheet(frames, spacing, background_color)
        /\ heap' = Call(frames,
                        sprite_sheet_object(Objects(frames), IdsOf(frames, Objects(frames))),
                        create_animation_sprite_sheet(frames, spacing, background_color))
    /\ op' = "create_animation_sprite_sheet"
    /\ pc' = "done"
    /\ UNCHANGED <<hsv_data, sprite_sheet_paths, files, pack, all_sprite_sheets>>
    /\ UNCHANGED world

CreateCombinedSpriteSheet ==
    /\ pc = "idle"
    /\ \E ks \in KindOrders, base \in Sizes, spacing \in Spacings,
          style \in {<<OpaqueSeq, Clear>>, <<AlphaSeq, Dark>>} :
        \E counts \in [1..Len(ks) -> FrameCounts], odd \in 0..Len(ks) :
            LET animation_frames == AnimationFrames(ks, counts, odd, base, style[1])
            IN  /\ args' = [NoArgs EXCEPT !.animation_frames = animation_frames,
                                          !.spacing = spacing,
                                          !.background_color = style[2]]
                /\ result' = create_combined_sprite_sheet(animation_frames, spacing,
                                                          style[2])
                /\ heap' = LET imgs == AllFrames(animation_frames)
                           IN  Call(imgs,
                                    combined_sheet_object(Objects(imgs),
                                                          IdsOf(imgs, Objects(imgs))),
                                    create_combined_sprite_sheet(animation_frames,
                                                                 spacing, style[2]))
    /\ op' = "create_combined_sprite_sheet"
    /\ pc' = "done"
    /\ UNCHANGED <<hsv_data, sprite_sheet_paths, files, pack, all_sprite_sheets>>
    /\ UNCHANGED world

CreateGridLayout ==
    /\ pc = "idle"
    /\ \E n \in 0..MaxImages, base \in Sizes, colours \in Styles, odd \in {0, 2},
          cols \in 1..MaxCols, spacing \in Spacings :
        LET images == GridImages(n, base, colours, odd)
        IN  /\ args' = [NoArgs EXCEPT !.images = images, !.cols = cols,
                                      !.spacing = spacing,
                                      !.background_color = Dark]
            /\ result' = create_grid_layout(images, cols, spacing, Dark)
            /\ heap' = Call(images,
                            grid_object(Objects(images), IdsOf(images, Objects(images))),
                            create_grid_layout(images, cols, spacing, Dark))
    /\ op' = "create_grid_layout"
    /\ pc' = "done"
    /\ UNCHANGED <<hsv_data, sprite_sheet_paths, files, pack, all_sprite_sheets>>
    /\ UNCHANGED world

UpscaleNearestNeighbor ==
    /\ pc = "idle"
    /\ \E image \in VariantImages, scale \in Scales :
        /\ args' = [NoArgs EXCEPT !.image = image, !.scale = scale]
        /\ result' = Returned(upscale_nearest_neighbor(image, scale))
        /\ heap' = LET imgs == <<image>>
                   IN  Call(imgs, resized_object(Objects(imgs), IdsOf(imgs, Objects(imgs))),
                            Returned(upscale_nearest_neighbor(image, scale)))
    /\ op' = "upscale_nearest_neighbor"
    /\ pc' = "done"
    /\ UNCHANGED <<hsv_data, sprite_sheet_paths, files, pack, all_sprite_sheets>>
    /\ UNCHANGED world

CreatePackPreview ==
    /\ pc = "idle"
    /\ \E shape \in PreviewShapes, font \in FontOutcomes,
          output_path \in {None, PreviewPath} :
        LET sprite_sheets == GridImages(shape[1], shape[2], OpaqueSeq, 0)
            scale == shape[3]
            cols == shape[4]
            preview == create_pack_preview(sprite_sheets, scale, cols, font)
        IN  /\ args' = [NoArgs EXCEPT !.sprite_sheets = sprite_sheets,
                                      !.scale = scale, !.cols = cols,
                                      !.font = font, !.output_path = output_path]
            /\ result' = preview
            /\ heap' = Call(sprite_sheets,
                            preview_object(Objects(sprite_sheets),
                                           IdsOf(sprite_sheets, Objects(sprite_sheets))),
                            preview)
            /\ files' = save_preview(files, preview, output_path)
    /\ op' = "create_pack_preview"
    /\ pc' = "done"
    /\ UNCHANGED <<hsv_data, sprite_sheet_paths, pack, all_sprite_sheets>>
    /\ UNCHANGED world

\* the pack name and the theme name of the configuration
ConfigPackName == <<"p", "1">>
ConfigThemeName == <<"c", "f">>

\* pipeline.py:162: f"pack_{self.config.pack_name}"
PackIdPrefix == <<"p", "a", "c", "k", "_">>

\* pipeline.py:149-171: generate_pack starts on a configuration
StartPack ==
    /\ pc = "idle"
    /\ \E resolution \in Sizes, colours \in Styles, num_frames \in FrameCounts,
          num_creatures \in PackCreatures, num_variants \in PackVariants :
        pack' = [resolution |-> resolution, colours |-> colours,
                 num_frames |-> num_frames, num_creatures |-> num_creatures,
                 num_variants |-> num_variants, creature_idx |-> 0,
                 variant_idx |-> 0,
                 metadata |-> create_pack_metadata(
                                  PackIdPrefix \o ConfigPackName, ConfigPackName,
                                  ConfigThemeName, py_tuple(resolution),
                                  num_creatures, num_variants, "utcnow")]
    /\ op' = "generate_pack"
    /\ pc' = "loop"
    /\ UNCHANGED <<args, hsv_data, result, sprite_sheet_paths, files,
                   all_sprite_sheets, heap>>
    /\ UNCHANGED world

\* pipeline.py:173-174: the two nested loops have an iteration left
InLoop ==
    /\ pack.creature_idx < pack.num_creatures
    /\ pack.variant_idx < pack.num_variants

\* pipeline.py:173-174: the indices of the iteration after the current one
NextIteration ==
    IF pack.variant_idx + 1 < pack.num_variants
    THEN [pack EXCEPT !.variant_idx = pack.variant_idx + 1]
    ELSE [pack EXCEPT !.creature_idx = pack.creature_idx + 1, !.variant_idx = 0]

\* pipeline.py:176
GenerateCreature ==
    /\ pc = "loop"
    /\ InLoop
    /\ args' = [NoArgs EXCEPT
                   !.generated_frames =
                       generated_frames(pack.resolution, pack.colours,
                                        pack.num_frames, pack.creature_idx),
                   !.animation_frames =
                       generate_creature(pack.resolution, pack.colours,
                                         pack.num_frames, pack.creature_idx,
                                         pack.variant_idx),
                   !.creature_id = CreatureId(pack.creature_idx),
                   !.variant_index = pack.variant_idx]
    /\ op' = "generate_creature"
    /\ pc' = "generated"
    /\ UNCHANGED <<hsv_data, result, sprite_sheet_paths, files, pack,
                   all_sprite_sheets, heap>>
    /\ UNCHANGED world

\* pipeline.py:179-183; an exception leaves generate_pack
SaveCreatureAssets ==
    /\ pc = "generated"
    /\ LET st == save_creature_assets(files, args.creature_id,
                                      args.animation_frames, args.variant_index)
       IN  /\ result' = IF st.status = "ok" THEN Returned(NoImage)
                        ELSE Raised(st.status)
           /\ sprite_sheet_paths' = st.paths
           /\ files' = st.files
           /\ pc' = IF st.status = "ok" THEN "saved" ELSE "done"
    /\ op' = "save_creature_assets"
    /\ UNCHANGED <<args, hsv_data, pack, all_sprite_sheets, heap>>
    /\ UNCHANGED world

\* pipeline.py:199-206: the file generate_pack opens for the preview
PreviewSheetPath(creature_id) == <<creature_id, "sprite_sheets", <<"idle", ".png">>>>

\* pipeline.py:186: f"{creature_id}_v{variant_idx}"
variant_id_text(creature_id, variant_idx) ==
    creature_id_text(creature_id) \o "_v" \o format_d(variant_idx, 1)

\* pipeline.py:185-193
creature_meta_of(creature_id, config, paths) ==
    create_creature_metadata(variant_id_text(creature_id, config.variant_idx),
                             ConfigThemeName, "#000000", config.variant_idx,
                             py_tuple(config.resolution), paths,
                             config.num_frames, "utcnow")

\* pipeline.py:185-208, and on to the next iteration
CollectPreviewSheet ==
    /\ pc = "saved"
    /\ LET combined_path == PreviewSheetPath(args.creature_id)
       IN  all_sprite_sheets' =
               IF pack.variant_idx = 0 /\ combined_path \in DOMAIN files
               THEN Append(all_sprite_sheets, files[combined_path])
               ELSE all_sprite_sheets
    /\ pack' = [NextIteration EXCEPT
                    !.metadata =
                        append_creature(@, creature_meta_of(args.creature_id,
                                                            pack,
                                                            sprite_sheet_paths))]
    /\ op' = "generate_pack"
    /\ pc' = "loop"
    /\ UNCHANGED <<args, hsv_data, result, sprite_sheet_paths, files, heap>>
    /\ UNCHANGED world

\* pipeline.py:211-237: after the loops generate_pack writes metadata.json
\* and README.txt and hands the collected sheets to create_pack_preview,
\* whose work is the call CreatePackPreview
FinishPack ==
    /\ pc = "loop"
    /\ ~InLoop
    /\ args' = IF all_sprite_sheets # <<>>
               THEN [NoArgs EXCEPT
                        !.sprite_sheets = Take(all_sprite_sheets, PreviewLimit),
                        !.scale = PackPreviewScale,
                        !.output_path = PreviewPath]
               ELSE NoArgs
    /\ \E encoding \in LocaleEncodings :
        LET written == written_after_loops(tree_of_images(files),
                                           all_sprite_sheets, encoding)
        IN  /\ tree' = written.tree
            /\ result' = IF written.status = "ok" THEN Returned(NoImage)
                         ELSE Raised(written.status)
    /\ op' = "generate_pack"
    /\ pc' = "done"
    /\ UNCHANGED <<hsv_data, sprite_sheet_paths, files, pack,
                   all_sprite_sheets, heap>>
    /\ UNCHANGED <<retval, config_global, events, archive>>

\* pipeline.py:239-263: generate_and_export goes on from the returned
\* metadata to export_pack; what generate_pack raises leaves
\* generate_and_export as well
ExportGenerated ==
    /\ pc = "done"
    /\ op = "generate_pack"
    /\ \E create_archive \in BOOLEAN, cleanup \in BOOLEAN :
        args' = [NoArgs EXCEPT !.metadata = pack.metadata,
                               !.create_archive = create_archive,
                               !.cleanup = cleanup,
                               !.pack_dir = tree]
    /\ retval' = IF result.status = "ok" THEN NewExportInfo
                 ELSE Exception(result.status)
    /\ pc' = IF result.status = "ok" THEN "validate" ELSE "done"
    /\ events' = <<>>
    /\ archive' = NoArchive
    /\ op' = "generate_and_export"
    /\ UNCHANGED <<hsv_data, result, sprite_sheet_paths, files, pack,
                   all_sprite_sheets, heap, tree, config_global>>

GeneratePackFilename ==
    /\ pc = "idle"
    /\ \E pack_name \in {<<"b">>, <<"A", " ", "b">>}, theme_name \in Names,
          resolution \in {<<1, 1>>, <<32, 32>>}, pack_id \in Names \cup {None} :
        /\ args' = [NoArgs EXCEPT !.pack_name = pack_name,
                                  !.theme_name = theme_name,
                                  !.resolution = resolution,
                                  !.pack_id = pack_id]
        /\ retval' = generate_pack_filename(pack_name, theme_name, resolution,
                                            pack_id)
    /\ op' = "generate_pack_filename"
    /\ pc' = "done"
    /\ UNCHANGED <<hsv_data, result, sprite_sheet_paths, files, pack,
                   all_sprite_sheets, heap, tree, config_global, events, archive>>

ValidatePackStructure ==
    /\ pc = "idle"
    /\ \E creatures_kind \in {"none", "file", "dir"}, has_metadata \in BOOLEAN,
          has_readme \in BOOLEAN, shapes \in [1..MaxCreatures -> CreatureShapes] :
        LET pack_dir == PackDirectory(creatures_kind, has_metadata, has_readme,
                                      shapes)
        IN  /\ tree' = pack_dir
            /\ \E first \in FirstListed(pack_dir) :
                  retval' = validate_pack_structure(pack_dir, first)
    /\ op' = "validate_pack_structure"
    /\ pc' = "done"
    /\ UNCHANGED <<args, hsv_data, result, sprite_sheet_paths, files, pack,
                   all_sprite_sheets, heap, config_global, events, archive>>

\* metadata.py:84-95
SaveMetadata ==
    /\ pc = "idle"
    /\ \E metadata \in PackMetadatas :
        /\ args' = [NoArgs EXCEPT !.metadata = metadata,
                                  !.output_path = MetadataPath]
        /\ files' = WriteFile(NoFiles, MetadataPath,
                              json_dump(pack_to_dict(metadata)))
    /\ tree' = WriteFile(mkdir(NoFiles, <<>>), MetadataPath, "file")
    /\ retval' = Value(None)
    /\ op' = "save_metadata"
    /\ pc' = "written"
    /\ UNCHANGED <<hsv_data, result, sprite_sheet_paths, pack, all_sprite_sheets,
                   heap, config_global, events, archive>>

\* metadata.py:98-136
LoadMetadata ==
    /\ pc = "written"
    /\ retval' = load_metadata(json_load(files[args.output_path]))
    /\ op' = "load_metadata"
    /\ pc' = "done"
    /\ UNCHANGED <<args, hsv_data, result, sprite_sheet_paths, files, pack,
                   all_sprite_sheets, heap, tree, config_global, events, archive>>

\* packaging.py:184-209: export_pack is called on a pack directory
ExportPack ==
    /\ pc = "idle"
    /\ \E pack_dir \in ExportDirectories, create_archive \in BOOLEAN,
          cleanup \in BOOLEAN :
        /\ tree' = pack_dir
        /\ args' = [NoArgs EXCEPT
                       !.metadata = create_pack_metadata(
                                        PackIdPrefix \o ConfigPackName,
                                        ConfigPackName, ConfigThemeName,
                                        py_tuple(<<32, 32>>), MaxCreatures, 1,
                                        "utcnow"),
                       !.create_archive = create_archive,
                       !.cleanup = cleanup,
                       !.pack_dir = pack_dir]
    /\ retval' = NewExportInfo
    /\ events' = <<>>
    /\ archive' = NoArchive
    /\ op' = "export_pack"
    /\ pc' = "validate"
    /\ UNCHANGED <<hsv_data, result, sprite_sheet_paths, files, pack,
                   all_sprite_sheets, heap, config_global>>

\* the step that ends the try block: packaging.py:237 when nothing is left
\* to do, or the next step
Proceed(export_info, next) ==
    /\ retval' = IF next = "finish" THEN [export_info EXCEPT !.success = TRUE]
                 ELSE export_info
    /\ pc' = IF next = "finish" THEN "done" ELSE next

\* packaging.py:241-245: an exception of a step is handled, or leaves
\* export_pack
Caught(export_info, e) ==
    /\ retval' = IF IsException(e) THEN on_exception(export_info, e)
                 ELSE Exception(e)
    /\ pc' = "done"

\* packaging.py:211-214
ExportValidate ==
    /\ pc = "validate"
    /\ \E first \in FirstListed(tree) :
        LET valid == validate_pack_structure(tree, first)
        IN  /\ events' = Append(events, <<"validate", valid>>)
            /\ IF valid.status # "ok" THEN Caught(retval, valid.status)
               ELSE IF ~valid.value THEN pc' = "done" /\ retval' = retval
               ELSE Proceed(retval, "statistics")
    /\ UNCHANGED <<op, args, hsv_data, result, sprite_sheet_paths, files, pack,
                   all_sprite_sheets, heap, tree, config_global, archive>>

\* packaging.py:216-219
ExportStatistics ==
    /\ pc = "statistics"
    /\ \E fault \in {"none", "stat"} :
        IF fault = "stat"
        THEN /\ events' = Append(events, <<"statistics", Exception("OSError")>>)
             /\ Caught(retval, "OSError")
        ELSE /\ events' = Append(events, <<"statistics", Value(None)>>)
             /\ Proceed([retval EXCEPT !.statistics = get_pack_statistics(tree)],
                        AfterStatistics(args.create_archive, args.cleanup))
    /\ UNCHANGED <<op, args, hsv_data, result, sprite_sheet_paths, files, pack,
                   all_sprite_sheets, heap, tree, config_global, archive>>

\* packaging.py:222-231
ExportArchive ==
    /\ pc = "archive"
    /\ \E fault \in {"none", "open", "write"} :
        LET created == create_pack_archive(tree, archive_path_of(args.metadata),
                                           fault)
        IN  /\ archive' = created.archive
            /\ events' = Append(events, <<"archive", created.outcome>>)
            /\ IF created.outcome.status # "ok"
               THEN Caught(retval, created.outcome.status)
               ELSE Proceed([retval EXCEPT
                                !.archive_path = created.outcome.value],
                            AfterArchive(args.cleanup))
    /\ UNCHANGED <<op, args, hsv_data, result, sprite_sheet_paths, files, pack,
                   all_sprite_sheets, heap, tree, config_global>>

\* packaging.py:233-235
ExportCleanup ==
    /\ pc = "cleanup"
    /\ \E fault \in {"none", "rmtree"} :
        LET cleaned == cleanup_temporary_files(tree, fault)
        IN  /\ tree' = cleaned.tree
            /\ files' = IF cleaned.tree = NoFiles THEN NoFiles ELSE files
            /\ events' = Append(events, <<"cleanup", cleaned.outcome>>)
            /\ IF cleaned.outcome.status # "ok"
               THEN Caught(retval, cleaned.outcome.status)
               ELSE Proceed(retval, "finish")
    /\ UNCHANGED <<op, args, hsv_data, result, sprite_sheet_paths, pack,
                   all_sprite_sheets, heap, config_global, archive>>

\* config.py:123-136, called for the first time in the process or again;
\* events keeps the arguments of the calls
GetConfig ==
    /\ pc \in {"idle", "configured"}
    /\ Len(events) < MaxCalls
    /\ \E config_file \in ConfigFiles :
        /\ args' = [NoArgs EXCEPT !.config_file = config_file]
        /\ config_global' = get_config(config_global, config_file, Len(events) + 1)
        /\ events' = Append(events, config_file)
    /\ retval' = config_global'
    /\ op' = "get_config"
    /\ pc' = "configured"
    /\ UNCHANGED <<hsv_data, result, sprite_sheet_paths, files, pack,
                   all_sprite_sheets, heap, tree, archive>>

\* the call is over; the next one starts from a fresh output directory and,
\* after calls of get_config, in a fresh process
Return ==
    /\ pc \in {"done", "configured"}
    /\ pc' = "idle"
    /\ op' = "none"
    /\ args' = NoArgs
    /\ hsv_data' = <<>>
    /\ result' = NoResult
    /\ sprite_sheet_paths' = <<>>
    /\ files' = NoFiles
    /\ pack' = NoPack
    /\ all_sprite_sheets' = <<>>
    /\ heap' = NoHeap
    /\ retval' = None
    /\ tree' = NoFiles
    /\ config_global' = NoConfig
    /\ events' = <<>>
    /\ archive' = NoArchive

Next ==
    \/ ApplyColorVariant
    \/ CreateAnimationSpriteSheet
    \/ CreateCombinedSpriteSheet
    \/ CreateGridLayout
    \/ UpscaleNearestNeighbor
    \/ CreatePackPreview
    \/ StartPack
    \/ GenerateCreature
    \/ SaveCreatureAssets
    \/ CollectPreviewSheet
    \/ FinishPack
    \/ ExportGenerated
    \/ GeneratePackFilename
    \/ ValidatePackStructure
    \/ SaveMetadata
    \/ LoadMetadata
    \/ ExportPack
    \/ ExportValidate
    \/ ExportStatistics
    \/ ExportArchive
    \/ ExportCleanup
    \/ GetConfig
    \/ Return

Spec == Init /\ [][Next]_vars

(***************************************************************************)
(* Properties.                                                             *)
(***************************************************************************)
EqualSize(imgs) == \A i, j \in 1..Len(imgs) : imgs[i].size = imgs[j].size
AllOpaque(imgs) == \A i \in 1..Len(imgs) : IsOpaque(imgs[i])
WellFormed(img) == DOMAIN img.data = Coords(img.size)

NoEmptyAnimation(d) == \A k \in 1..Len(d) : d[k][2] # <<>>

\* the largest frame count of a mapping, stated without MaxLenOf
IsMaxFrames(d, m) ==
    /\ \E k \in 1..Len(d) : Len(d[k][2]) = m
    /\ \A k \in 1..Len(d) : Len(d[k][2]) <= m

\* C1: for a non-empty list of N frames that all have size (W, H) and a
\* spacing s >= 0, create_animation_sprite_sheet returns an image of width
\* N*W + (N-1)*s and height H.
C1_AnimationSheetSize ==
    (/\ op = "create_animation_sprite_sheet"
     /\ args.frames # <<>>
     /\ EqualSize(args.frames))
    => LET N == Len(args.frames)
           W == args.frames[1].size[1]
           H == args.frames[1].size[2]
       IN  /\ result.status = "ok"
           /\ result.image.size = <<N * W + (N - 1) * args.spacing, H>>
           /\ WellFormed(result.image)

C1_Witness ==
    /\ op = "create_animation_sprite_sheet"
    /\ Len(args.frames) = 2
    /\ EqualSize(args.frames)
    /\ args.frames[1].size = <<2, 1>>
    /\ args.spacing = 2
    /\ result.image.size = <<6, 1>>

\* C2: in the sheet built from N fully opaque frames of one size (W, H),
\* pixel (i*(W+s)+x, y) is pixel (x, y) of frame i for every frame i and
\* every (x, y) of the frame, and every pixel of a spacing gap is the
\* background colour.
C2_AnimationSheetPixels ==
    (/\ op = "create_animation_sprite_sheet"
     /\ args.frames # <<>>
     /\ EqualSize(args.frames)
     /\ AllOpaque(args.frames))
    => LET N == Len(args.frames)
           W == args.frames[1].size[1]
           H == args.frames[1].size[2]
           s == args.spacing
           sheet == result.image
       IN  /\ result.status = "ok"
           /\ \A i \in 0..(N - 1) : \A q \in Coords(<<W, H>>) :
                 sheet.data[<<i * (W + s) + q[1], q[2]>>] = args.frames[i + 1].data[q]
           /\ \A p \in Coords(sheet.size) :
                 (p[1] % (W + s)) >= W => sheet.data[p] = args.background_color

C2_Witness ==
    /\ op = "create_animation_sprite_sheet"
    /\ Len(args.frames) = 2
    /\ EqualSize(args.frames)
    /\ AllOpaque(args.frames)
    /\ args.frames[1].size = <<2, 2>>
    /\ args.frames[1] # args.frames[2]
    /\ args.frames[2].data[<<0, 0>>] # args.frames[2].data[<<1, 0>>]
    /\ args.spacing = 1
    /\ args.background_color = Clear
    /\ result.status = "ok"
    /\ result.image.data[<<2, 0>>] = Clear
    /\ result.image.data[<<3, 1>>] = args.frames[2].data[<<0, 1>>]

\* C3: for a non-empty mapping of K kinds to non-empty animations whose
\* frames all have size (W, H), with M the largest frame count,
\* create_combined_sprite_sheet returns an image of size
\* (M*W + (M-1)*s, K*H + (K-1)*s), in whatever order the mapping was filled.
C3_CombinedSheetSize ==
    (/\ op = "create_combined_sprite_sheet"
     /\ args.animation_frames # <<>>
     /\ NoEmptyAnimation(args.animation_frames)
     /\ EqualSize(AllFrames(args.animation_frames)))
    => LET d == args.animation_frames
           K == Len(d)
           W == d[1][2][1].size[1]
           H == d[1][2][1].size[2]
           s == args.spacing
       IN  /\ result.status = "ok"
           /\ WellFormed(result.image)
           /\ \A M \in 1..Len(AllFrames(d)) :
                 IsMaxFrames(d, M)
                 => result.image.size = <<M * W + (M - 1) * s, K * H + (K - 1) * s>>

\* three kinds, the first inserted not the longest, W # H
C3_Witness ==
    /\ op = "create_combined_sprite_sheet"
    /\ DictKeys(args.animation_frames) = <<"WALK", "ATTACK", "IDLE">>
    /\ EqualSize(AllFrames(args.animation_frames))
    /\ Len(args.animation_frames[1][2]) = 1
    /\ Len(args.animation_frames[2][2]) = 2
    /\ Len(args.animation_frames[3][2]) = 1
    /\ args.animation_frames[1][2][1].size = <<1, 2>>
    /\ args.spacing = 2
    /\ result.status = "ok"
    /\ result.image.size = <<4, 10>>

\* the kinds of a mapping in the order attack, idle, walk
CanonicalRows(d) ==
    LET has(kind) == \E k \in 1..Len(d) : d[k][1] = kind
    IN  (IF has("ATTACK") THEN <<"ATTACK">> ELSE <<>>)
        \o (IF has("IDLE") THEN <<"IDLE">> ELSE <<>>)
        \o (IF has("WALK") THEN <<"WALK">> ELSE <<>>)

\* row r (from 0) of sheet holds the frames of animation frames, of size
\* (W, H), placed with spacing s
RowHolds(sheet, r, frames, W, H, s) ==
    \A i \in 0..(Len(frames) - 1) : \A q \in Coords(<<W, H>>) :
        sheet.data[<<i * (W + s) + q[1], r * (H + s) + q[2]>>] = frames[i + 1].data[q]

C5_CombinedFileIdleWalkAttack ==
    (/\ op = "save_creature_assets"
     /\ result.status = "ok"
     /\ AllOpaque(AllFrames(args.animation_frames)))
    => LET d == args.animation_frames
           sheet == files[SheetPath(args.creature_id, "IDLE", args.variant_index, TRUE)]
           W == d[1][2][1].size[1]
           H == d[1][2][1].size[2]
       IN  /\ RowHolds(sheet, 0, DictGet(d, "IDLE"), W, H, SheetSpacing)
           /\ RowHolds(sheet, 1, DictGet(d, "WALK"), W, H, SheetSpacing)
           /\ RowHolds(sheet, 2, DictGet(d, "ATTACK"), W, H, SheetSpacing)

\* C6: an empty list or mapping handed to create_animation_sprite_sheet,
\* create_combined_sprite_sheet, create_grid_layout or create_pack_preview
\* raises ValueError: no image is returned and no file is written.
C6_EmptyInputRaises ==
    (\/ op = "create_animation_sprite_sheet" /\ args.frames = <<>>
     \/ op = "create_combined_sprite_sheet" /\ args.animation_frames = <<>>
     \/ op = "create_grid_layout" /\ args.images = <<>>
     \/ op = "create_pack_preview" /\ args.sprite_sheets = <<>>)
    => /\ result.status = "ValueError"
       /\ result.image = NoImage
       /\ files = NoFiles

C6_Witness ==
    /\ op = "create_pack_preview"
    /\ args.sprite_sheets = <<>>
    /\ args.output_path = PreviewPath
    /\ result.status = "ValueError"
    /\ files = NoFiles

\* C7: create_animation_sprite_sheet and create_combined_sprite_sheet raise
\* an error whenever the frames they are given do not all have the same
\* dimensions.
C7_MismatchedFramesRaise ==
    (\/ op = "create_animation_sprite_sheet" /\ ~EqualSize(args.frames)
     \/ /\ op = "create_combined_sprite_sheet"
        /\ ~EqualSize(AllFrames(args.animation_frames)))
    => result.status # "ok"

\* C8: apply_color_variant returns an image of the input's dimensions in
\* which every pixel has the alpha value of the input pixel, for every
\* hue shift and saturation factor.
C8_VariantKeepsSizeAndAlpha ==
    op = "apply_color_variant"
    => /\ result.status = "ok"
       /\ result.image.size = args.base_image.size
       /\ WellFormed(result.image)
       /\ \A p \in Coords(args.base_image.size) :
             result.image.data[p][4] = args.base_image.data[p][4]

\* a half-transparent pixel whose colour does change
C8_Witness ==
    /\ op = "apply_color_variant"
    /\ args.hue_shift = 60
    /\ args.saturation_factor = <<12, 10>>
    /\ args.base_image.size = <<2, 1>>
    /\ \E p \in Coords(args.base_image.size) :
          /\ args.base_image.data[p][4] = 128
          /\ result.image.data[p][4] = 128
          /\ result.image.data[p] # args.base_image.data[p]

\* C9: apply_color_variant(img, 0, 1.0) is the identity: every pixel of the
\* result equals the pixel of the input in all four channels.
C9_NeutralVariantIsIdentity ==
    (/\ op = "apply_color_variant"
     /\ args.hue_shift = 0
     /\ args.saturation_factor = <<10, 10>>)
    => \A p \in Coords(args.base_image.size) :
          result.image.data[p] = args.base_image.data[p]

\* C10: for a pixel of HSV channels (h, s, v), apply_color_variant computes
\* the hue (h + hue_shift) modulo the size of the hue channel, the
\* saturation s * saturation_factor (its integer part) clamped to the
\* channel range, and the value v; also for negative shifts and for
\* factors that take the saturation past the maximum.
C10_HueSaturationValue ==
    op = "apply_color_variant"
    => \A p \in Coords(args.base_image.size) :
          LET h == hsv_of(args.base_image)[p][1]
              s == hsv_of(args.base_image)[p][2]
              v == hsv_of(args.base_image)[p][3]
              num == args.saturation_factor[1]
              den == args.saturation_factor[2]
              new_h == hsv_data[p][1]
              new_s == hsv_data[p][2]
          IN  /\ new_h \in 0..255
              /\ \E n \in -1..1 : new_h = h + args.hue_shift + 256 * n
              /\ new_s \in 0..255
              /\ s * num >= 255 * den => new_s = 255
              /\ s * num <= 0 => new_s = 0
              /\ (s * num > 0 /\ s * num < 255 * den)
                 => (new_s * den <= s * num /\ s * num < (new_s + 1) * den)
              /\ hsv_data[p][3] = v

\* a negative shift that wraps below zero and a factor that takes the
\* saturation past 255
C10_Witness ==
    /\ op = "apply_color_variant"
    /\ args.hue_shift = -60
    /\ args.saturation_factor = <<20, 10>>
    /\ \E p \in Coords(args.base_image.size) :
          LET hsv == hsv_of(args.base_image)[p]
          IN  /\ hsv[1] + args.hue_shift < 0
              /\ hsv_data[p][1] = hsv[1] + 196
              /\ hsv[2] * 2 > 255
              /\ hsv_data[p][2] = 255
              /\ hsv_data[p][3] = hsv[3]

\* the hue-channel steps that stand for a shift of deg degrees of the
\* 360-degree circle on the 256-step channel, rounded either way
ChannelSteps(deg) ==
    {d \in 0..255 : 360 * d > 256 * deg - 360 /\ 360 * d < 256 * deg + 360}

\* C11: for a variant index i > 0 every frame generate_creature returns is
\* the generated frame with its hue shifted by (i*60 mod 360) degrees,
\* normalised to the hue channel's 256 steps, and its saturation multiplied
\* by 0.8 + 0.2*i; for i = 0 the generated frames are returned unmodified.
C11_VariantHueInDegrees ==
    op = "generate_creature"
    => LET i == args.variant_index
           generated == args.generated_frames
           returned == args.animation_frames
       IN  /\ i = 0 => returned = generated
           /\ i > 0 =>
                \E d \in ChannelSteps((i * 60) % 360) :
                    \A k \in 1..Len(generated) :
                        /\ returned[k][1] = generated[k][1]
                        /\ Len(returned[k][2]) = Len(generated[k][2])
                        /\ \A f \in 1..Len(generated[k][2]) :
                              returned[k][2][f] =
                                  apply_color_variant(generated[k][2][f], d,
                                                      <<8 + 2 * i, 10>>)

\* C12: for a non-empty list of N images that all have size (W, H), cols >= 1
\* and spacing s >= 0, create_grid_layout returns an image of size
\* (cols*W + (cols+1)*s, R*H + (R+1)*s) where R is N / cols rounded up.
C12_GridSize ==
    (/\ op = "create_grid_layout"
     /\ args.images # <<>>
     /\ EqualSize(args.images))
    => LET N == Len(args.images)
           W == args.images[1].size[1]
           H == args.images[1].size[2]
           s == args.spacing
       IN  /\ result.status = "ok"
           /\ WellFormed(result.image)
           /\ \E R \in 1..N :
                 /\ R * args.cols >= N
                 /\ (R - 1) * args.cols < N
                 /\ result.image.size =
                        <<args.cols * W + (args.cols + 1) * s, R * H + (R + 1) * s>>

\* three images in two columns: the second row is only half full
C12_Witness ==
    /\ op = "create_grid_layout"
    /\ Len(args.images) = 3
    /\ EqualSize(args.images)
    /\ args.images[1].size = <<2, 1>>
    /\ args.cols = 2
    /\ args.spacing = 1
    /\ result.image.size = <<7, 5>>

\* pixel p lies in the cell of image number idx (from 0) of a grid of cells
\* of size (W, H) in cols columns with spacing s
InCell(p, idx, cols, W, H, s) ==
    LET x0 == s + (idx % cols) * (W + s)
        y0 == s + (idx \div cols) * (H + s)
    IN  /\ p[1] >= x0 /\ p[1] < x0 + W
        /\ p[2] >= y0 /\ p[2] < y0 + H

\* C13: create_grid_layout places image number idx (row-major, from 0) with
\* its top-left corner at (s + (idx mod cols)*(W+s), s + (idx div cols)*(H+s));
\* the placed images overlap neither each other nor the outer padding, and
\* whatever no image covers, the cells left over in the last row included,
\* is background (the pixels of an image are stated for opaque images).
C13_GridPlacement ==
    (/\ op = "create_grid_layout"
     /\ args.images # <<>>
     /\ EqualSize(args.images))
    => LET N == Len(args.images)
           W == args.images[1].size[1]
           H == args.images[1].size[2]
           s == args.spacing
           cols == args.cols
           grid == result.image
       IN  /\ result.status = "ok"
           /\ AllOpaque(args.images) =>
                \A idx \in 0..(N - 1) : \A q \in Coords(<<W, H>>) :
                    grid.data[<<s + (idx % cols) * (W + s) + q[1],
                                s + (idx \div cols) * (H + s) + q[2]>>]
                        = args.images[idx + 1].data[q]
           /\ \A p \in Coords(grid.size) :
                 /\ (\A idx \in 0..(N - 1) : ~InCell(p, idx, cols, W, H, s))
                    => grid.data[p] = args.background_color
                 /\ \A i, j \in 0..(N - 1) :
                       (InCell(p, i, cols, W, H, s) /\ InCell(p, j, cols, W, H, s))
                       => i = j
                 /\ (\E idx \in 0..(N - 1) : InCell(p, idx, cols, W, H, s))
                    => /\ p[1] >= s /\ p[1] < grid.size[1] - s
                       /\ p[2] >= s /\ p[2] < grid.size[2] - s

\* three opaque 1x1 images in two columns with spacing 1: the third image is
\* at (1, 3) and the cell to its right, which receives none, is background
C13_Witness ==
    /\ op = "create_grid_layout"
    /\ Len(args.images) = 3
    /\ AllOpaque(args.images)
    /\ EqualSize(args.images)
    /\ args.images[1].size = <<1, 1>>
    /\ args.cols = 2
    /\ args.spacing = 1
    /\ result.image.data[<<1, 1>>] = args.images[1].data[<<0, 0>>]
    /\ result.image.data[<<3, 1>>] = args.images[2].data[<<0, 0>>]
    /\ result.image.data[<<1, 3>>] = args.images[3].data[<<0, 0>>]
    /\ result.image.data[<<3, 3>>] = args.background_color
    /\ args.images[3].data[<<0, 0>>] # args.background_color

\* pixel p lies in frame number i (from 0) of row r (from 0) of a sheet of
\* frames of size (W, H) placed with spacing s
InFrame(p, r, i, W, H, s) ==
    /\ p[1] >= i * (W + s) /\ p[1] < i * (W + s) + W
    /\ p[2] >= r * (H + s) /\ p[2] < r * (H + s) + H

\* C14: in the combined sheet frame i of the animation of row r is at
\* (i*(W+s), r*(H+s)), so every row starts at x = 0; every pixel that no
\* frame of its own row covers, the space to the right of a short row's last
\* frame included, is background: no frame writes into another row (stated
\* for opaque frames of one size, the rows in the order attack, idle, walk).
C14_CombinedPlacement ==
    (/\ op = "create_combined_sprite_sheet"
     /\ args.animation_frames # <<>>
     /\ args.animation_frames[1][2] # <<>>
     /\ EqualSize(AllFrames(args.animation_frames))
     /\ AllOpaque(AllFrames(args.animation_frames)))
    => LET d == args.animation_frames
           rows == CanonicalRows(d)
           framesOf(r) == d[CHOOSE k \in 1..Len(d) : d[k][1] = rows[r + 1]][2]
           W == d[1][2][1].size[1]
           H == d[1][2][1].size[2]
           s == args.spacing
           sheet == result.image
       IN  /\ result.status = "ok"
           /\ \A r \in 0..(Len(rows) - 1) :
                 \A i \in 0..(Len(framesOf(r)) - 1) : \A q \in Coords(<<W, H>>) :
                    sheet.data[<<i * (W + s) + q[1], r * (H + s) + q[2]>>]
                        = framesOf(r)[i + 1].data[q]
           /\ \A p \in Coords(sheet.size) :
                 (\A r \in 0..(Len(rows) - 1) :
                     \A i \in 0..(Len(framesOf(r)) - 1) : ~InFrame(p, r, i, W, H, s))
                 => sheet.data[p] = args.background_color

\* walk has two frames, attack and idle one each: in the rows of attack and
\* idle the place of a second frame is background, in the row of walk it is
\* walk's second frame
C14_Witness ==
    /\ op = "create_combined_sprite_sheet"
    /\ DictKeys(args.animation_frames) = <<"IDLE", "WALK", "ATTACK">>
    /\ Len(args.animation_frames[1][2]) = 1
    /\ Len(args.animation_frames[2][2]) = 2
    /\ Len(args.animation_frames[3][2]) = 1
    /\ EqualSize(AllFrames(args.animation_frames))
    /\ AllOpaque(AllFrames(args.animation_frames))
    /\ args.animation_frames[1][2][1].size = <<1, 2>>
    /\ args.spacing = 1
    /\ result.status = "ok"
    /\ result.image.data[<<2, 0>>] = args.background_color
    /\ result.image.data[<<2, 3>>] = args.background_color
    /\ result.image.data[<<2, 6>>] = args.animation_frames[2][2][2].data[<<0, 0>>]
    /\ result.image.data[<<2, 7>>] = args.animation_frames[2][2][2].data[<<0, 1>>]
    /\ result.image.data[<<0, 2>>] = args.background_color
    /\ args.animation_frames[2][2][2].data[<<0, 0>>] # args.background_color

\* C15: upscale_nearest_neighbor(image, k) returns an image of size
\* (W*k, H*k) in which the k-by-k block at (x*k, y*k) has the colour of source
\* pixel (x, y) throughout, so that output pixel (x, y) is source pixel
\* (x div k, y div k); for k = 1 the result equals the image.
C15_UpscaleBlocks ==
    op = "upscale_nearest_neighbor"
    => LET k == args.scale
           W == args.image.size[1]
           H == args.image.size[2]
           out == result.image
       IN  /\ result.status = "ok"
           /\ out.size = <<W * k, H * k>>
           /\ WellFormed(out)
           /\ out.mode = args.image.mode
           /\ \A q \in Coords(<<W, H>>) : \A dx, dy \in 0..(k - 1) :
                 out.data[<<q[1] * k + dx, q[2] * k + dy>>] = args.image.data[q]
           /\ k = 1 => out = args.image

\* a patterned image two pixels wide doubled: two blocks of different colour
\* side by side
C15_Witness ==
    /\ op = "upscale_nearest_neighbor"
    /\ args.scale = 2
    /\ args.image.size = <<2, 1>>
    /\ result.image.size = <<4, 2>>
    /\ result.image.data[<<1, 1>>] = args.image.data[<<0, 0>>]
    /\ result.image.data[<<2, 1>>] = args.image.data[<<1, 0>>]
    /\ args.image.data[<<0, 0>>] # args.image.data[<<1, 0>>]

\* the font lookup succeeded or failed in the way create_pack_preview catches
FontUsable == args.font \in {"truetype", "OSError"}

\* pixel p of a preview lies in the cell of sprite number j (from 0); the
\* cells have side S, the spacing is sp and the header band is top rows high
InPreviewCell(p, j, cols, S, sp, top) ==
    InCell(<<p[1], p[2] - top>>, j, cols, S, S, sp)

\* C16: create_pack_preview shows min(len(sheets), 20) sprites in the order
\* of the list: cell j of the grid shows the square of side = height of sheet
\* j cut from the left edge of sheet j, every pixel enlarged to a scale-by-
\* scale block (where the square reaches past the sheet's right edge nothing
\* is drawn); outside these cells the grid is background, so the sheets after
\* the 20th show nowhere (stated for opaque sheets of one size).
C16_PreviewSprites ==
    (/\ op = "create_pack_preview"
     /\ args.sprite_sheets # <<>>
     /\ EqualSize(args.sprite_sheets)
     /\ AllOpaque(args.sprite_sheets)
     /\ FontUsable)
    => LET sheets == args.sprite_sheets
           shown == IF Len(sheets) < PreviewLimit THEN Len(sheets) ELSE PreviewLimit
           k == args.scale
           cols == args.cols
           S == sheets[1].size[2] * k
           sp == PreviewSpacingUnit * k
           top == HeaderUnit * k
           preview == result.image
       IN  /\ result.status = "ok"
           /\ \A j \in 0..(shown - 1) : \A q \in Coords(<<S, S>>) :
                 preview.data[<<sp + (j % cols) * (S + sp) + q[1],
                                top + sp + (j \div cols) * (S + sp) + q[2]>>]
                     = IF q[1] \div k < sheets[j + 1].size[1]
                       THEN sheets[j + 1].data[<<q[1] \div k, q[2] \div k>>]
                       ELSE PreviewBg
           /\ \A p \in Coords(preview.size) :
                 (/\ p[2] >= top
                  /\ \A j \in 0..(shown - 1) : ~InPreviewCell(p, j, cols, S, sp, top))
                 => preview.data[p] = PreviewBg

\* 21 sheets in 5 columns: sprite 20 is the last one of the fourth row, and
\* there is no fifth row for sprite 21
C16_Witness ==
    /\ op = "create_pack_preview"
    /\ Len(args.sprite_sheets) = PreviewLimit + 1
    /\ args.sprite_sheets[1].size = <<2, 1>>
    /\ args.cols = 5
    /\ args.scale = 1
    /\ result.status = "ok"
    /\ result.image.size = <<53, 124>>
    /\ result.image.data[<<8, 88>>] = args.sprite_sheets[1].data[<<0, 0>>]
    /\ result.image.data[<<17, 88>>] = args.sprite_sheets[2].data[<<0, 0>>]
    /\ result.image.data[<<44, 115>>] = args.sprite_sheets[20].data[<<0, 0>>]
    /\ args.sprite_sheets[1].data[<<0, 0>>] # args.sprite_sheets[2].data[<<0, 0>>]

\* C17: the image create_pack_preview returns has the size of the grid of
\* the shown sprites built with spacing 8*scale, (cols*S + (cols+1)*8*scale,
\* R*S + (R+1)*8*scale) for sprites of side S in R rows, made higher by the
\* header band of 80*scale rows; the band holds background and text only and
\* the grid starts right below it, with its padding first and its first
\* sprite after that; the image is written to output_path when one is given
\* and nothing is written otherwise.
C17_PreviewLayout ==
    (/\ op = "create_pack_preview"
     /\ args.sprite_sheets # <<>>
     /\ EqualSize(args.sprite_sheets)
     /\ AllOpaque(args.sprite_sheets)
     /\ FontUsable)
    => LET sheets == args.sprite_sheets
           shown == IF Len(sheets) < PreviewLimit THEN Len(sheets) ELSE PreviewLimit
           k == args.scale
           cols == args.cols
           S == sheets[1].size[2] * k
           sp == PreviewSpacingUnit * k
           top == HeaderUnit * k
           preview == result.image
       IN  /\ result.status = "ok"
           /\ WellFormed(preview)
           /\ \E R \in 1..shown :
                 /\ R * cols >= shown
                 /\ (R - 1) * cols < shown
                 /\ preview.size = <<cols * S + (cols + 1) * sp,
                                     top + R * S + (R + 1) * sp>>
           /\ \A p \in Coords(preview.size) :
                 /\ p[2] < top
                    => preview.data[p] \in {PreviewBg, TitleFill, InfoFill}
                 /\ (p[2] >= top /\ p[2] < top + sp)
                    => preview.data[p] = PreviewBg
           /\ preview.data[<<sp, top + sp>>] = sheets[1].data[<<0, 0>>]
           /\ args.output_path = None => files = NoFiles
           /\ args.output_path # None
              => (DOMAIN files = {args.output_path}
                  /\ files[args.output_path] = preview)

\* two 4x2 sheets in one column at scale 2, written to the preview path: the
\* sprites have side 4, the spacing is 16 and the band 160 rows
C17_Witness ==
    /\ op = "create_pack_preview"
    /\ Len(args.sprite_sheets) = 2
    /\ args.sprite_sheets[1].size = <<4, 2>>
    /\ args.cols = 1
    /\ args.scale = 2
    /\ args.output_path = PreviewPath
    /\ result.status = "ok"
    /\ result.image.size = <<36, 216>>
    /\ result.image.data[<<16, 175>>] = PreviewBg
    /\ result.image.data[<<16, 176>>] = args.sprite_sheets[1].data[<<0, 0>>]
    /\ files[PreviewPath] = result.image

\* C18: whatever error the lookup of the system font produces, it does not
\* leave create_pack_preview: for a non-empty list of sheets a preview image
\* is returned.
C18_FontFailureNeverPropagates ==
    (op = "create_pack_preview" /\ args.sprite_sheets # <<>>)
    => (/\ result.status = "ok"
        /\ result.image # NoImage)

\* the images a call of the core received, in the order it received them
InputImages ==
    CASE op = "apply_color_variant" -> <<args.base_image>>
      [] op = "create_animation_sprite_sheet" -> args.frames
      [] op = "create_combined_sprite_sheet" -> AllFrames(args.animation_frames)
      [] op = "create_grid_layout" -> args.images
      [] op = "upscale_nearest_neighbor" -> <<args.image>>
      [] op = "create_pack_preview" -> args.sprite_sheets
      [] OTHER -> <<>>

CoreOperations ==
    {"apply_color_variant", "create_animation_sprite_sheet",
     "create_combined_sprite_sheet", "create_grid_layout",
     "upscale_nearest_neighbor", "create_pack_preview"}

\* C19: after a call of apply_color_variant, create_animation_sprite_sheet,
\* create_combined_sprite_sheet, create_grid_layout, upscale_nearest_neighbor
\* or create_pack_preview every image object the call received holds the
\* pixels it held before, also when one object was passed several times, and
\* the image returned is an object that is none of those received.
C19_InputsUntouched ==
    op \in CoreOperations
    => /\ Len(heap.inputs) = Len(InputImages)
       /\ \A i \in 1..Len(InputImages) :
             heap.objects[heap.inputs[i]] = InputImages[i]
       /\ result.status = "ok"
          => /\ \A i \in 1..Len(heap.inputs) : heap.result # heap.inputs[i]
             /\ heap.result \in 1..Len(heap.objects)
             /\ heap.objects[heap.result] = result.image

\* one opaque frame passed twice with no spacing: one object came in, the
\* sheet is a second object and the frame is as it was
C19_Witness ==
    /\ op = "create_animation_sprite_sheet"
    /\ Len(args.frames) = 2
    /\ args.frames[1] = args.frames[2]
    /\ heap.inputs = <<1, 1>>
    /\ heap.result = 2
    /\ Len(heap.objects) = 2
    /\ heap.objects[1] = args.frames[1]
    /\ heap.objects[2] = result.image
    /\ result.image # args.frames[1]

\* C20: the sheets generate_pack collects and hands to the preview are the
\* combined sprite sheets of the creatures: the i-th of them is the image
\* written as combined.png for the i-th creature.
C20_PreviewGetsCombinedSheets ==
    op = "generate_pack"
    => /\ \A i \in 1..Len(all_sprite_sheets) :
             LET combined_png == SheetPath(CreatureId(i - 1), "IDLE", 0, TRUE)
             IN  /\ combined_png \in DOMAIN files
                 /\ all_sprite_sheets[i] = files[combined_png]
       /\ (pc = "done" /\ all_sprite_sheets # <<>>)
          => args.sprite_sheets = Take(all_sprite_sheets, PreviewLimit)

\* C21: the string generate_pack_filename returns contains no space, and it
\* contains the lower-cased theme name, the text WxH of the resolution and,
\* when a pack_id is given, the pack_id.
C21_FilenameWithoutSpaces ==
    op = "generate_pack_filename"
    => /\ \A i \in 1..Len(retval) : retval[i] # " "
       /\ Contains(retval, str_lower(args.theme_name))
       /\ Contains(retval, str_of_int(args.resolution[1]) \o <<"x">>
                           \o str_of_int(args.resolution[2]))
       /\ args.pack_id # None => Contains(retval, args.pack_id)

\* C22: validate_pack_structure returns True exactly when the pack directory
\* contains creatures/, metadata.json and README.txt, creatures/ holds at
\* least one creature directory and every creature directory contains idle,
\* walk, attack and sprite_sheets; otherwise it returns False, and it never
\* raises.
C22_ValidateAllCreatures ==
    op = "validate_pack_structure"
    => /\ retval.status = "ok"
       /\ retval.value =
            (/\ \A path \in RequiredPaths : Exists(tree, path)
             /\ CreatureDirs(tree) # {}
             /\ \A d \in CreatureDirs(tree) : \A sub \in RequiredSubdirs :
                   Exists(tree, Append(d, sub)))

\* C23: load_metadata of the file save_metadata wrote gives the metadata
\* back: every field of the pack and of every creature is equal, the
\* creatures are in the same order, and the resolutions are tuples again.
C23_MetadataRoundTrip ==
    op = "load_metadata"
    => /\ retval = args.metadata
       /\ retval.class = "PackMetadata"
       /\ retval.resolution.type = "tuple"
       /\ \A i \in 1..Len(retval.creatures.items) :
             /\ retval.creatures.items[i].class = "CreatureMetadata"
             /\ retval.creatures.items[i].resolution.type = "tuple"

C23_Witness ==
    /\ op = "load_metadata"
    /\ Len(args.metadata.creatures.items) >= 2
    /\ retval = args.metadata
    /\ files[MetadataPath].creatures.items[2].resolution.type = "array"

\* the iterations of the two loops of generate_pack that have saved their
\* assets
IterationsSaved ==
    pack.creature_idx * pack.num_variants + pack.variant_idx
    + (IF pc = "saved" THEN 1 ELSE 0)

\* what one iteration writes: the frames and the sheet of every kind, and the
\* combined sheet
WritesOfIteration ==
    Len(ConfigAnimationTypes) * (pack.num_frames + 1) + 1

\* C24: within one generate_pack run two different outputs never get the same
\* file path: the texts of the paths written so far are as many as the writes
\* (frames, per-kind sheets and combined sheets of every creature and variant
\* saved so far), and different (creature, directory, file name) triples have
\* different texts, so no written file is overwritten by a later step.
C24_DistinctPaths ==
    (\/ op = "generate_pack" /\ pc \in {"loop", "done"}
     \/ op = "save_creature_assets" /\ pc = "saved")
    => /\ Cardinality({path_text(p) : p \in DOMAIN files})
            = IterationsSaved * WritesOfIteration
       /\ \A p, q \in DOMAIN files : path_text(p) = path_text(q) => p = q

C24_Witness ==
    /\ op = "generate_pack"
    /\ pc = "done"
    /\ pack.num_creatures >= 2
    /\ pack.num_variants >= 2
    /\ pack.num_frames >= 2
    /\ Cardinality({path_text(p) : p \in DOMAIN files}) = pack.num_creatures * pack.num_variants * WritesOfIteration
    /\ \E p \in DOMAIN files : path_text(p) = "creature_002/walk/frame_02_variant_1.png"
    /\ \E p \in DOMAIN files : path_text(p) = "creature_001/sprite_sheets/combined.png"

\* C25: when generate_pack returns, pack_metadata.creatures holds
\* num_creatures * num_variants entries, one per (creature, variant) pair in
\* creature-major then variant order, entry (c, v) having the id
\* creature_{c+1:03d}_v{v}; the sprite_sheet_paths of every entry have exactly
\* the keys idle, walk, attack and combined.
C25_CreatureEntries ==
    (op = "generate_pack" /\ pc = "done")
    => LET creatures == pack.metadata.creatures.items
       IN  /\ Len(creatures) = pack.num_creatures * pack.num_variants
           /\ \A c \in 0..(pack.num_creatures - 1), v \in 0..(pack.num_variants - 1) :
                 LET entry == creatures[c * pack.num_variants + v + 1]
                 IN  /\ entry.creature_id
                          = "creature_" \o format_d(c + 1, 3) \o "_v" \o ToString(v)
                     /\ entry.variant_index = v
                     /\ Len(entry.sprite_sheet_paths) = 4
                     /\ {entry.sprite_sheet_paths[k][1] : k \in 1..4}
                          = {"idle", "walk", "attack", "combined"}

C25_Witness ==
    /\ op = "generate_pack"
    /\ pc = "done"
    /\ pack.num_creatures >= 2
    /\ pack.num_variants >= 2
    /\ Len(pack.metadata.creatures.items) = pack.num_creatures * pack.num_variants
    /\ pack.metadata.creatures.items[1].creature_id = "creature_001_v0"
    /\ pack.metadata.creatures.items[pack.num_variants + 2].creature_id
         = "creature_002_v1"

\* export_pack was called, directly or by generate_and_export after
\* generate_pack returned
ExportRunning ==
    \/ op = "export_pack"
    \/ op = "generate_and_export" /\ result.status = "ok"

\* step i of export_pack was the named one and ended without an exception
StepDone(i, step) ==
    /\ i \in 1..Len(events)
    /\ events[i][1] = step
    /\ events[i][2].status = "ok"

ValidatedAt(i) == StepDone(i, "validate") /\ events[i][2].value

StepRaised(i) == i \in 1..Len(events) /\ events[i][2].status # "ok"

\* C26: in export_pack the archive comes into existence only after
\* validate_pack_structure returned True; the pack directory is changed only
\* after the archive was created and only with create_archive and cleanup both
\* true; with create_archive false or without a successful validation the
\* pack directory is as it was and archive_path is None.
C26_ExportOrder ==
    ExportRunning
    => /\ archive # NoArchive
          => \E i, j \in 1..Len(events) :
                i < j /\ ValidatedAt(i) /\ events[j][1] = "archive"
       /\ tree # args.pack_dir
          => /\ args.create_archive
             /\ args.cleanup
             /\ \E i, j, k \in 1..Len(events) :
                   /\ i < j
                   /\ j < k
                   /\ ValidatedAt(i)
                   /\ StepDone(j, "archive")
                   /\ events[k][1] = "cleanup"
             /\ archive # NoArchive
             /\ archive.complete
       /\ (~args.create_archive \/ ~\E i \in 1..Len(events) : ValidatedAt(i))
          => /\ tree = args.pack_dir
             /\ retval.archive_path = None
             /\ archive = NoArchive

C26_Witness ==
    /\ ExportRunning
    /\ pc = "done"
    /\ args.pack_dir # NoFiles
    /\ tree = NoFiles
    /\ archive # NoArchive
    /\ archive.complete
    /\ retval.success
    /\ Len(events) = 4

\* C27: export_pack never raises: whatever it ends with is the dictionary; a
\* step that raised ends the call with success = False and an 'error' entry;
\* success = True means validation returned True, the statistics were taken,
\* the archive was written in full if asked for and the pack directory was
\* removed if asked for, each without an error.
C27_ExportNeverRaises ==
    ExportRunning
    => /\ "success" \in DOMAIN retval
       /\ (\E i \in 1..Len(events) : StepRaised(i))
          => /\ pc = "done"
             /\ ~retval.success
             /\ retval.error # None
       /\ retval.success
          => /\ pc = "done"
             /\ retval.error = None
             /\ \A i \in 1..Len(events) : ~StepRaised(i)
             /\ ValidatedAt(1)
             /\ StepDone(2, "statistics")
             /\ args.create_archive
                => /\ StepDone(3, "archive")
                   /\ archive # NoArchive
                   /\ archive.complete
                   /\ retval.archive_path = archive.path
             /\ (args.create_archive /\ args.cleanup)
                => /\ StepDone(4, "cleanup")
                   /\ tree = NoFiles

C27_Witness ==
    /\ ExportRunning
    /\ pc = "done"
    /\ Len(events) = 1
    /\ events[1][2].status = "NotADirectoryError"
    /\ "success" \in DOMAIN retval
    /\ ~retval.success
    /\ retval.error = <<"NotADirectoryError">>

\* C28: generate_and_export with num_creatures = 0 or num_variants = 0 on a
\* fresh output directory writes metadata.json and README.txt and no preview;
\* the creatures directory does not exist, validation returns False, and the
\* call returns success = False with archive_path None and no archive file.
C28_EmptyPackExport ==
    (op = "generate_and_export" /\ pc = "done"
     /\ (pack.num_creatures = 0 \/ pack.num_variants = 0))
    => /\ IsFile(tree, MetadataPath)
       /\ IsFile(tree, ReadmePath)
       /\ ~Exists(tree, PreviewFile)
       /\ ~Exists(tree, PreviewsDir)
       /\ ~Exists(tree, <<<<"creatures">>>>)
       /\ Len(events) = 1
       /\ events[1][1] = "validate"
       /\ events[1][2].status = "ok"
       /\ ~events[1][2].value
       /\ "success" \in DOMAIN retval
       /\ ~retval.success
       /\ retval.archive_path = None
       /\ retval.error = None
       /\ archive = NoArchive


\* C29: for opaque frames of one size, the row of every kind in the combined
\* sheet, cut to the width N*W + (N-1)*s of the kind's N frames, is pixel for
\* pixel the sheet create_animation_sprite_sheet builds from these frames
\* with the same spacing and background.
C29_RowsArePerAnimationSheets ==
    (/\ op = "create_combined_sprite_sheet"
     /\ result.status = "ok"
     /\ EqualSize(AllFrames(args.animation_frames))
     /\ AllOpaque(AllFrames(args.animation_frames)))
    => LET d == args.animation_frames
           rows == CanonicalRows(d)
           W == d[1][2][1].size[1]
           H == d[1][2][1].size[2]
           s == args.spacing
       IN  \A r \in 0..(Len(rows) - 1) :
              LET frames == d[CHOOSE k \in 1..Len(d) : d[k][1] = rows[r + 1]][2]
                  single == create_animation_sprite_sheet(frames, s,
                                                          args.background_color)
              IN  frames # <<>>
                  => /\ single.status = "ok"
                     /\ single.image.mode = result.image.mode
                     /\ single.image.size
                          = <<Len(frames) * W + (Len(frames) - 1) * s, H>>
                     /\ \A q \in Coords(single.image.size) :
                           result.image.data[<<q[1], r * (H + s) + q[2]>>]
                               = single.image.data[q]

\* three rows, idle with two frames and spacing 1: the second row of the
\* combined sheet starts with the idle sheet, gap included
C29_Witness ==
    /\ op = "create_combined_sprite_sheet"
    /\ result.status = "ok"
    /\ EqualSize(AllFrames(args.animation_frames))
    /\ AllOpaque(AllFrames(args.animation_frames))
    /\ Len(args.animation_frames) = 3
    /\ args.spacing = 1
    /\ \E k \in 1..3 :
          LET frames == args.animation_frames[k][2]
              single == create_animation_sprite_sheet(frames, 1,
                                                      args.background_color)
              H == frames[1].size[2]
              W == frames[1].size[1]
          IN  /\ args.animation_frames[k][1] = "IDLE"
              /\ Len(frames) = 2
              /\ single.image.size = <<2 * W + 1, H>>
              /\ single.image.data[<<W, 0>>] = args.background_color
              /\ result.image.data[<<W, H + 1>>] = args.background_color
              /\ result.image.data[<<W + 1, H + 1>>] = frames[2].data[<<0, 0>>]
              /\ frames[2].data[<<0, 0>>] # args.background_color

\* C30: get_config returns one process-wide Config: every call returns the
\* object the first call built from the first call's config_file, whatever
\* file a later call names, so that file's themes and defaults never load.
C30_ConfigSingleton ==
    op = "get_config"
    => /\ config_global = Config(events[1], 1)
       /\ retval = config_global
       /\ retval.id = 1

\* a.yaml was given first and b.yaml later: the configuration is a.yaml's
C30_Witness ==
    /\ op = "get_config"
    /\ Len(events) >= 2
    /\ events[1] = "a.yaml"
    /\ args.config_file = "b.yaml"
    /\ retval.default_resolution = py_tuple(<<64, 64>>)
    /\ retval.default_num_creatures = 10
    /\ "lava" \in retval.themes
    /\ retval # Config("b.yaml", 1)

====
